---- MODULE Spec2Model ----
(***************************************************************************)
(* Model of mustate's convergence layer: the hybrid logical clock (hlc),   *)
(* the semantic operation detector, the conflict resolver and the patch    *)
(* applier (patches), and the store they update.                           *)
(*                                                                         *)
(* JavaScript strings are sequences of UTF-16 code units (naturals):       *)
(* "a" is <<97>>, "0" is <<48>>, "/" is <<47>>.  JSON values are tagged    *)
(* records [kind, val].                                                    *)
(***************************************************************************)
EXTENDS Integers, Sequences, FiniteSets, TLC

VARIABLES
    \* -- the clock of one actor, driven by tick and receive ------------
    hlcLocal,      \* the actor's clock (an HLC)
    hlcRemote,     \* a remote actor's clock, the argument of receive
    trail,         \* the values hlcLocal has had, oldest first
    trailOps,      \* trailOps[i]: the call that produced trail[i], and its reading
    \* -- compare, asString and fromString applied to drawn inputs -------
    hlcA, hlcB, hlcC,   \* the clocks the functions are applied to
    fnOut,         \* the last call and what it returned
    \* -- one process detecting semantic operations ----------------------
    hlcInstance,   \* patches.ts: the module-level clock
    prevState,     \* the state the patches are detected against
    stamped,       \* the hlc of every operation classified so far, in creation order
    \* -- two replicas exchanging patch batches --------------------------
    store,         \* store[r]: currentState of replica r's store
    clock,         \* clock[r]: replica r's module-level hlcInstance
    outbox,        \* outbox[r]: the batches replica r produced, in order
    applied,       \* applied[r]: how many of the peer's batches r has applied
    localOps,      \* localOps[r]: the local mutations r performed, in order
    initialState,  \* the state both replicas started from
    \* -- the path trie of subscribers and the store that notifies them ---
    root,          \* PathTrie.root: the subscribers of every node, by node path
    generation,    \* how many times clear() has replaced the root
    handles,       \* the unsubscribe functions subscribe has returned
    calls          \* how many calls have changed the trie or made a handle

clockVars   == <<hlcLocal, hlcRemote, trail, trailOps>>
fnVars      == <<hlcA, hlcB, hlcC, fnOut>>
detectVars  == <<hlcInstance, prevState, stamped>>
replicaVars == <<store, clock, outbox, applied, localOps, initialState>>
trieVars    == <<root, generation, handles, calls>>
vars == <<clockVars, fnVars, detectVars, replicaVars, trieVars>>

(***************************************************************************)
(* Bounds of the model.                                                    *)
(***************************************************************************)
MaxTime  == 2   \* wall-clock readings and initial physical times are 0..MaxTime
MaxCount == 1   \* initial logical counts are 0..MaxCount
MaxSteps == 2   \* calls of tick/receive on the one actor's clock
MaxOps   == 3   \* classified operations one process stamps
MaxLocal == 2   \* local mutations the two replicas make in all

(***************************************************************************)
(* JavaScript strings                                                      *)
(***************************************************************************)
Min(a, b) == IF a < b THEN a ELSE b
Max(a, b) == IF a > b THEN a ELSE b

\* a < b on strings: lexicographic order of the code units
RECURSIVE StrLess(_, _)
StrLess(a, b) ==
    IF b = <<>> THEN FALSE
    ELSE IF a = <<>> THEN TRUE
    ELSE IF Head(a) # Head(b) THEN Head(a) < Head(b)
    ELSE StrLess(Tail(a), Tail(b))

\* String.prototype.slice(start, end) for 0 <= start <= end
slice(s, start, end) == SubSeq(s, Min(start, Len(s)) + 1, Min(end, Len(s)))

\* String.prototype.padStart(targetLength, padChar)
RECURSIVE padStart(_, _, _)
padStart(s, targetLength, padChar) ==
    IF Len(s) >= targetLength THEN s
    ELSE padStart(<<padChar>> \o s, targetLength, padChar)

\* the digit character of value d < 36: "0".."9", "a".."z"
DigitChar(d) == IF d < 10 THEN 48 + d ELSE 87 + d

\* Number.prototype.toString(radix) of an integer n >= 0
RECURSIVE toString(_, _)
toString(n, radix) ==
    IF n < radix THEN <<DigitChar(n)>>
    ELSE toString(n \div radix, radix) \o <<DigitChar(n % radix)>>

\* the value of a digit character, 36 for a character that is no digit
DigitValue(c) ==
    IF c \in 48..57 THEN c - 48
    ELSE IF c \in 97..122 THEN c - 87
    ELSE IF c \in 65..90 THEN c - 55
    ELSE 36

\* parseInt's result for a string with no leading digit: not a number
NaN == -2147483647

IsWhiteSpace(c) == c \in {9, 10, 11, 12, 13, 32}

RECURSIVE TrimStart(_)
TrimStart(s) ==
    IF s # <<>> /\ IsWhiteSpace(Head(s)) THEN TrimStart(Tail(s)) ELSE s

\* the value of the longest prefix of s made of digits of the radix,
\* continuing from acc; seen says whether a digit was read
RECURSIVE ParseDigits(_, _, _, _)
ParseDigits(s, radix, acc, seen) ==
    IF s # <<>> /\ DigitValue(Head(s)) < radix
    THEN ParseDigits(Tail(s), radix, acc * radix + DigitValue(Head(s)), TRUE)
    ELSE IF seen THEN acc ELSE NaN

HasHexPrefix(unsigned, radix) ==
    /\ radix \in {0, 16}
    /\ Len(unsigned) >= 2
    /\ unsigned[1] = 48
    /\ unsigned[2] \in {88, 120}

\* the digits after the sign: a "0x" prefix is skipped for radix 16 or none
ParseUnsigned(unsigned, radix) ==
    IF HasHexPrefix(unsigned, radix)
    THEN ParseDigits(Tail(Tail(unsigned)), 16, 0, FALSE)
    ELSE ParseDigits(unsigned, IF radix = 0 THEN 10 ELSE radix, 0, FALSE)

Negated(value) == IF value = NaN THEN NaN ELSE 0 - value

ParseSigned(trimmed, radix) ==
    IF trimmed # <<>> /\ Head(trimmed) = 45
    THEN Negated(ParseUnsigned(Tail(trimmed), radix))
    ELSE IF trimmed # <<>> /\ Head(trimmed) = 43
    THEN ParseUnsigned(Tail(trimmed), radix)
    ELSE ParseUnsigned(trimmed, radix)

\* parseInt(string, radix); radix 0 stands for an absent radix
parseInt(string, radix) == ParseSigned(TrimStart(string), radix)

(***************************************************************************)
(* hlc: the hybrid logical clock                                           *)
(***************************************************************************)
TS_LENGTH    == 10
TS_BASE      == 36
COUNT_LENGTH == 4
COUNT_BASE   == 16

createHLC(actor, now) == [timestamp |-> now, count |-> 0, actor |-> actor]

tickKeepsCount(hlc, now) ==
    IF now > hlc.timestamp
    THEN [timestamp |-> now, count |-> 0, actor |-> hlc.actor]
    ELSE [timestamp |-> hlc.timestamp, count |-> hlc.count, actor |-> hlc.actor]

tick(hlc, now) ==
    IF now > hlc.timestamp
    THEN [timestamp |-> now, count |-> 0, actor |-> hlc.actor]
    ELSE [timestamp |-> hlc.timestamp, count |-> hlc.count + 1, actor |-> hlc.actor]

receiveKeepsLocalTime(local, remote, now) ==
    IF now > local.timestamp /\ now > remote.timestamp
    THEN [timestamp |-> now, count |-> 0, actor |-> local.actor]
    ELSE IF local.timestamp = remote.timestamp
    THEN [timestamp |-> local.timestamp,
          count |-> Max(local.count, remote.count) + 1,
          actor |-> local.actor]
    ELSE [timestamp |-> local.timestamp,
          count |-> local.count + 1,
          actor |-> local.actor]

receiveCountsLocal(local, remote, now) ==
    IF now > local.timestamp /\ now > remote.timestamp
    THEN [timestamp |-> now, count |-> 0, actor |-> local.actor]
    ELSE IF local.timestamp = remote.timestamp
    THEN [timestamp |-> local.timestamp,
          count |-> Max(local.count, remote.count) + 1,
          actor |-> local.actor]
    ELSE IF local.timestamp > remote.timestamp
    THEN [timestamp |-> local.timestamp,
          count |-> local.count + 1,
          actor |-> local.actor]
    ELSE [timestamp |-> remote.timestamp,
          count |-> local.count + 1,
          actor |-> local.actor]

receive(local, remote, now) ==
    IF now > local.timestamp /\ now > remote.timestamp
    THEN [timestamp |-> now, count |-> 0, actor |-> local.actor]
    ELSE IF local.timestamp = remote.timestamp
    THEN [timestamp |-> local.timestamp,
          count |-> Max(local.count, remote.count) + 1,
          actor |-> local.actor]
    ELSE IF local.timestamp > remote.timestamp
    THEN [timestamp |-> local.timestamp,
          count |-> local.count + 1,
          actor |-> local.actor]
    ELSE [timestamp |-> remote.timestamp,
          count |-> remote.count + 1,
          actor |-> local.actor]

compareIgnoresActor(a, b) ==
    IF a.timestamp = b.timestamp
    THEN a.count - b.count
    ELSE a.timestamp - b.timestamp

compare(a, b) ==
    IF a.timestamp = b.timestamp
    THEN IF a.count = b.count
         THEN IF a.actor = b.actor THEN 0
              ELSE IF StrLess(a.actor, b.actor) THEN -1 ELSE 1
         ELSE a.count - b.count
    ELSE a.timestamp - b.timestamp

asStringUnpadded(hlc) ==
    toString(hlc.timestamp, TS_BASE) \o toString(hlc.count, COUNT_BASE) \o hlc.actor

asString(hlc) ==
    padStart(toString(hlc.timestamp, TS_BASE), TS_LENGTH, 48)
        \o padStart(toString(hlc.count, COUNT_BASE), COUNT_LENGTH, 48)
        \o hlc.actor

fromStringDecimalCount(encoded) ==
    [timestamp |-> parseInt(slice(encoded, 0, TS_LENGTH), TS_BASE),
     count     |-> parseInt(slice(encoded, TS_LENGTH, TS_LENGTH + COUNT_LENGTH), 10),
     actor     |-> slice(encoded, TS_LENGTH + COUNT_LENGTH, Len(encoded))]

fromString(encoded) ==
    [timestamp |-> parseInt(slice(encoded, 0, TS_LENGTH), TS_BASE),
     count     |-> parseInt(slice(encoded, TS_LENGTH, TS_LENGTH + COUNT_LENGTH),
                            COUNT_BASE),
     actor     |-> slice(encoded, TS_LENGTH + COUNT_LENGTH, Len(encoded))]

\* fromString has no length check and no throw statement, and slice and
\* parseInt return a value for every string: no call raises an error
fromStringThrowsWhenShort(encoded) == Len(encoded) < TS_LENGTH + COUNT_LENGTH + 1

fromStringThrows(encoded) == FALSE

\* timestamp < 36^10 and count < 16^4: each field fits its padded width
InFieldBounds(hlc) ==
    /\ hlc.timestamp >= 0
    /\ hlc.count >= 0
    /\ Len(toString(hlc.timestamp, TS_BASE)) <= TS_LENGTH
    /\ Len(toString(hlc.count, COUNT_BASE)) <= COUNT_LENGTH

Sign(n) == IF n < 0 THEN -1 ELSE IF n > 0 THEN 1 ELSE 0

(***************************************************************************)
(* JSON values: [kind, val] with kind number, string, array (val a         *)
(* sequence of values), object (val a function from keys to values) or     *)
(* undefined.  Keys and path strings are strings (code unit sequences).    *)
(***************************************************************************)
Num(n) == [kind |-> "number", val |-> n]
Arr(elems) == [kind |-> "array", val |-> elems]
Obj(fields) == [kind |-> "object", val |-> fields]
Str(chars) == [kind |-> "string", val |-> chars]
Undefined == [kind |-> "undefined", val |-> 0]

\* an array or record as one particular object: two values are the same
\* object when they carry the same ref; a value without ref is an object of
\* its own
Ref(value, id) == [kind |-> value.kind, val |-> value.val, ref |-> id]
SameObject(a, b) ==
    /\ "ref" \in DOMAIN a
    /\ "ref" \in DOMAIN b
    /\ a.ref = b.ref
NoFields == [key \in {} |-> Undefined]
Field(key, value) == key :> value

\* string.split("/")
RECURSIVE SplitFrom(_, _, _)
SplitFrom(s, part, parts) ==
    IF s = <<>> THEN Append(parts, part)
    ELSE IF Head(s) = 47 THEN SplitFrom(Tail(s), <<>>, Append(parts, part))
    ELSE SplitFrom(Tail(s), Append(part, Head(s)), parts)

\* path.split("/").filter(Boolean): the non-empty segments
PathParts(path) == SelectSeq(SplitFrom(path, <<>>, <<>>), LAMBDA part : part # <<>>)

\* parts.join("/")
RECURSIVE join(_)
join(parts) ==
    IF parts = <<>> THEN <<>>
    ELSE IF Len(parts) = 1 THEN parts[1]
    ELSE parts[1] \o <<47>> \o join(Tail(parts))

IsRootPath(path) == path = <<>> \/ path = <<47>>

\* the array index a property name denotes, -1 when it denotes none
IndexOf(part) ==
    LET Canonical(n) ==
            IF n # NaN /\ n >= 0 /\ toString(n, 10) = part THEN n ELSE -1
    IN  Canonical(parseInt(part, 10))

LengthKey == <<108, 101, 110, 103, 116, 104>>   \* "length"

\* current[part]
Element(elems, index) ==
    IF index \in 0..(Len(elems) - 1) THEN elems[index + 1] ELSE Undefined

\* string[index]
Character(chars, index) ==
    IF index \in 0..(Len(chars) - 1) THEN Str(<<chars[index + 1]>>) ELSE Undefined

Prop(current, part) ==
    IF current.kind = "object"
    THEN IF part \in DOMAIN current.val THEN current.val[part] ELSE Undefined
    ELSE IF current.kind = "array"
    THEN IF part = LengthKey THEN Num(Len(current.val))
         ELSE Element(current.val, IndexOf(part))
    ELSE IF current.kind = "string"
    THEN IF part = LengthKey THEN Num(Len(current.val))
         ELSE Character(current.val, IndexOf(part))
    ELSE Undefined

RECURSIVE GetIn(_, _)
GetIn(current, parts) ==
    IF parts = <<>> THEN current
    ELSE IF current.kind = "undefined" THEN Undefined
    ELSE GetIn(Prop(current, parts[1]), Tail(parts))

getValueAtPath(obj, path) ==
    IF IsRootPath(path) THEN obj ELSE GetIn(obj, PathParts(path))

\* a failed assignment: a property set on a value that cannot hold it
Thrown == [kind |-> "thrown", val |-> 0]

\* elems[index] = value; a name that is no index leaves the elements alone
SetElement(elems, index, value) ==
    IF index < 0 THEN elems
    ELSE [i \in 1..Max(Len(elems), index + 1) |->
             IF i = index + 1 THEN value
             ELSE IF i <= Len(elems) THEN elems[i]
             ELSE Undefined]

\* elems.length = value: truncates or pads; an invalid length raises
SetLength(elems, value) ==
    IF value.kind = "number" /\ value.val >= 0
    THEN Arr([i \in 1..value.val |->
                 IF i <= Len(elems) THEN elems[i] ELSE Undefined])
    ELSE Thrown

\* current[part] = value; raises on a value that holds no properties
SetProp(current, part, value) ==
    IF value = Thrown THEN Thrown
    ELSE IF current.kind = "object"
    THEN Obj([key \in DOMAIN current.val \cup {part} |->
                 IF key = part THEN value ELSE current.val[key]])
    ELSE IF current.kind = "array" /\ part = LengthKey
    THEN SetLength(current.val, value)
    ELSE IF current.kind = "array"
    THEN Arr(SetElement(current.val, IndexOf(part), value))
    ELSE Thrown

\* the property name parts[parts.length - 1] gives when parts is empty
UndefinedKey == <<117, 110, 100, 101, 102, 105, 110, 101, 100>>   \* "undefined"

\* the walk of setValueAtPath: missing intermediate values become {}
OrEmptyRecord(child) ==
    IF child.kind = "undefined" THEN Obj(NoFields) ELSE child

RECURSIVE SetIn(_, _, _)
SetIn(current, parts, value) ==
    SetProp(current,
            IF parts = <<>> THEN UndefinedKey ELSE parts[1],
            IF Len(parts) <= 1 THEN value
            ELSE SetIn(OrEmptyRecord(Prop(current, parts[1])), Tail(parts), value))

setValueAtPathReplacesRoot(obj, path, value) ==
    IF IsRootPath(path) THEN value
    ELSE SetIn(obj, PathParts(path), value)

\* setValueAtPath(obj, path, value): the new obj, Thrown for the root path
setValueAtPath(obj, path, value) ==
    IF IsRootPath(path) THEN Thrown
    ELSE SetIn(obj, PathParts(path), value)

\* the start index splice uses for parseInt's result n
SpliceStart(elems, n) ==
    IF n = NaN THEN 0
    ELSE IF n < 0 THEN Max(Len(elems) + n, 0)
    ELSE n

\* elems.splice(start, 1)
Splice(elems, start) ==
    SubSeq(elems, 1, start) \o SubSeq(elems, start + 2, Len(elems))

\* current.splice(parseInt(part), 1) / delete current[part]
RemoveProp(current, part) ==
    IF current.kind = "array"
    THEN Arr(Splice(current.val, SpliceStart(current.val, parseInt(part, 0))))
    ELSE IF current.kind = "object"
    THEN Obj([key \in DOMAIN current.val \ {part} |-> current.val[key]])
    ELSE current

RECURSIVE RemoveIn(_, _)
RemoveIn(current, parts) ==
    IF parts = <<>> THEN RemoveProp(current, UndefinedKey)
    ELSE IF Len(parts) = 1 THEN RemoveProp(current, parts[1])
    ELSE LET Below(child) ==
                 IF child.kind = "undefined" THEN current
                 ELSE SetProp(current, parts[1], RemoveIn(child, Tail(parts)))
         IN  Below(Prop(current, parts[1]))

removeValueAtPath(obj, path) ==
    IF IsRootPath(path) THEN Thrown
    ELSE RemoveIn(obj, PathParts(path))

\* the value at path replaced by value, the root included: what a mutation
\* made in place on the value read by getValueAtPath leaves behind
ReplaceIn(obj, parts, value) ==
    IF parts = <<>> THEN value ELSE SetIn(obj, parts, value)

ReplaceAt(obj, path, value) == ReplaceIn(obj, PathParts(path), value)

isPlainObject(value) == value.kind = "object"

StrictNotEqualByContent(a, b) == a.kind # b.kind \/ a.val # b.val

\* a !== b: numbers and strings differ by value, arrays and records differ
\* unless they are the same object
StrictNotEqual(a, b) ==
    IF a.kind \in {"array", "object"} /\ b.kind \in {"array", "object"}
    THEN ~SameObject(a, b)
    ELSE a # b

(***************************************************************************)
(* patches: detection of semantic operations                               *)
(*                                                                         *)
(* A standard patch is [op, path, value]; a CRDT operation is [op, path,   *)
(* value, hlc, type].  The module-level hlcInstance is passed in and       *)
(* returned; now is the reading Date.now() gives the tick.                 *)
(***************************************************************************)
StandardPatch(op, path, value) == [op |-> op, path |-> path, value |-> value]
CRDTOperation(op, path, value, hlc) ==
    [op |-> op, path |-> path, value |-> value, hlc |-> hlc, type |-> "crdt"]
IsCRDT(patch) == "type" \in DOMAIN patch /\ patch.type = "crdt"
HasHlc(patch) == "hlc" \in DOMAIN patch

AbsKeepsSign(n) == n

\* Math.abs
Abs(n) == IF n < 0 THEN 0 - n ELSE n
Keys(record) == DOMAIN record.val

\* hlcInstance = tick(hlcInstance) has given ticked; the operation returned
\* carries asString(hlcInstance)
Stamp(op, path, value, ticked) ==
    [patch |-> CRDTOperation(op, path, value, asString(ticked)), hlc |-> ticked]

UnstampedAdvancing(patch, hlc) ==
    [patch |-> patch, hlc |-> [hlc EXCEPT !.count = @ + 1]]

\* return patch: the clock is left alone
Unstamped(patch, hlc) == [patch |-> patch, hlc |-> hlc]

\* two numbers with diff !== 0
IsNumericChange(pathValue, newValue) ==
    /\ pathValue.kind = "number"
    /\ newValue.kind = "number"
    /\ newValue.val - pathValue.val # 0

\* two plain objects with hasNewKeys || hasChangedKeys
IsRecordChange(pathValue, newValue) ==
    /\ isPlainObject(pathValue) /\ isPlainObject(newValue)
    /\ \/ \E key \in Keys(newValue) : key \notin Keys(pathValue)
       \/ \E key \in Keys(pathValue) :
              StrictNotEqual(pathValue.val[key], Prop(newValue, key))

\* the block of patch.op === "replace", pathValue read from prevState
DetectReplace(patch, pathValue, hlc, now) ==
    IF IsNumericChange(pathValue, patch.value)
    THEN Stamp(IF patch.value.val - pathValue.val > 0
               THEN "increment" ELSE "decrement",
               patch.path, Num(Abs(patch.value.val - pathValue.val)),
               tick(hlc, now))
    ELSE IF IsRecordChange(pathValue, patch.value)
    THEN Stamp("merge", patch.path, patch.value, tick(hlc, now))
    ELSE Unstamped(patch, hlc)

\* `/${pathParts.slice(0, -1).join("/")}`
ParentPath(pathParts) ==
    <<47>> \o join(SubSeq(pathParts, 1, Len(pathParts) - 1))

\* pathParts[pathParts.length - 1], undefined for a path with no segment
LastPart(pathParts) ==
    IF pathParts = <<>> THEN UndefinedKey ELSE pathParts[Len(pathParts)]

IsArrayAppendAtAnyIndex(parentValue, index, value) ==
    /\ parentValue.kind = "array"
    /\ value.kind # "undefined"

\* an add under an array at "-" or at the array's length, with a value
IsArrayAppend(parentValue, index, value) ==
    /\ parentValue.kind = "array"
    /\ value.kind # "undefined"
    /\ \/ index = <<45>>
       \/ parseInt(index, 0) = Len(parentValue.val)

\* the block of patch.op === "add"
DetectAdd(patch, pathParts, prev, hlc, now) ==
    IF IsArrayAppend(getValueAtPath(prev, ParentPath(pathParts)),
                     LastPart(pathParts), patch.value)
    THEN Stamp("append", ParentPath(pathParts), patch.value, tick(hlc, now))
    ELSE Unstamped(patch, hlc)

detectSemanticOperation(patch, prev, hlc, now) ==
    IF patch.op = "replace"
    THEN DetectReplace(patch, getValueAtPath(prev, patch.path), hlc, now)
    ELSE IF patch.op = "add"
    THEN DetectAdd(patch, PathParts(patch.path), prev, hlc, now)
    ELSE Unstamped(patch, hlc)

\* enhancePatches(patches, prevState, nextState): readings[i] is the reading
\* of the tick made for patches[i], if one is made
RECURSIVE EnhanceFrom(_, _, _, _, _)
EnhanceFrom(patches, prev, hlc, readings, done) ==
    IF patches = <<>> THEN [patches |-> done, hlc |-> hlc]
    ELSE LET Push(enhanced) ==
                 EnhanceFrom(Tail(patches), prev, enhanced.hlc, Tail(readings),
                             Append(done, enhanced.patch))
         IN  Push(detectSemanticOperation(Head(patches), prev, hlc,
                                          Head(readings)))

enhancePatches(patches, prev, hlc, readings) ==
    EnhanceFrom(patches, prev, hlc, readings, <<>>)

(***************************************************************************)
(* patches: conflict resolution                                            *)
(***************************************************************************)
\* the paths of the batch in order of first appearance (the Map's key order)
RECURSIVE PathsOf(_, _)
PathsOf(patches, seen) ==
    IF patches = <<>> THEN seen
    ELSE IF \E i \in 1..Len(seen) : seen[i] = Head(patches).path
    THEN PathsOf(Tail(patches), seen)
    ELSE PathsOf(Tail(patches), Append(seen, Head(patches).path))

\* operations.reduce((latest, current) =>
\*     compare(current, latest) > 0 ? current : latest)
RECURSIVE LatestFrom(_, _)
LatestFrom(operations, latest) ==
    IF operations = <<>> THEN latest
    ELSE LatestFrom(Tail(operations),
                    IF compare(fromString(Head(operations).hlc),
                               fromString(latest.hlc)) > 0
                    THEN Head(operations) ELSE latest)

RECURSIVE LatestIgnoringActorFrom(_, _)
LatestIgnoringActorFrom(operations, latest) ==
    IF operations = <<>> THEN latest
    ELSE LatestIgnoringActorFrom(Tail(operations),
             IF compareIgnoresActor(fromString(Head(operations).hlc),
                                    fromString(latest.hlc)) > 0
             THEN Head(operations) ELSE latest)

LatestIgnoringActor(operations) ==
    LatestIgnoringActorFrom(Tail(operations), Head(operations))

LatestIsLast(operations) == operations[Len(operations)]

Latest(operations) == LatestFrom(Tail(operations), Head(operations))

\* operations.reduce((sum, op) => sum + op.value, 0), numbers only
RECURSIVE Total(_)
Total(operations) ==
    IF operations = <<>> THEN 0
    ELSE (IF Head(operations).value.kind = "number"
          THEN Head(operations).value.val ELSE 0) + Total(Tail(operations))

\* the comparator of the two sorts: by hlc when both have one, else 0
HlcOrder(a, b) ==
    IF HasHlc(a) /\ HasHlc(b)
    THEN compare(fromString(a.hlc), fromString(b.hlc))
    ELSE 0

\* Array.prototype.sort with HlcOrder: a stable insertion sort.  HlcOrder is a
\* consistent comparator when all the elements carry an hlc, and on any batch
\* of at most two elements it orders them as every engine does; for the other
\* batches the language leaves the order to the engine: see SortOutcomes
RECURSIVE InsertSorted(_, _)
InsertSorted(sorted, patch) ==
    IF sorted = <<>> THEN <<patch>>
    ELSE IF HlcOrder(sorted[Len(sorted)], patch) > 0
    THEN Append(InsertSorted(SubSeq(sorted, 1, Len(sorted) - 1), patch),
                sorted[Len(sorted)])
    ELSE Append(sorted, patch)

RECURSIVE SortFrom(_, _)
SortFrom(patches, sorted) ==
    IF patches = <<>> THEN sorted
    ELSE SortFrom(Tail(patches), InsertSorted(sorted, Head(patches)))

sortByHlc(patches) == SortFrom(patches, <<>>)

\* [...patches].sort(comparator) as V8 (Node) runs it on an array shorter than
\* 64: the run that starts the array is found (and reversed when strictly
\* descending), then each later element is inserted by binary search
RECURSIVE RunEnd(_, _, _)
RunEnd(patches, idx, isDescending) ==
    IF idx = Len(patches) THEN idx
    ELSE IF isDescending = (HlcOrder(patches[idx + 1], patches[idx]) >= 0)
    THEN idx
    ELSE RunEnd(patches, idx + 1, isDescending)

Reverse(patches) ==
    [i \in 1..Len(patches) |-> patches[Len(patches) + 1 - i]]

\* left and right count from 0, as in the engine
RECURSIVE BinarySearch(_, _, _, _)
BinarySearch(sorted, pivot, left, right) ==
    IF left >= right THEN left
    ELSE IF HlcOrder(pivot, sorted[left + ((right - left) \div 2) + 1]) < 0
    THEN BinarySearch(sorted, pivot, left, left + ((right - left) \div 2))
    ELSE BinarySearch(sorted, pivot, left + ((right - left) \div 2) + 1, right)

InsertAt(sorted, at, pivot) ==
    SubSeq(sorted, 1, at) \o <<pivot>> \o SubSeq(sorted, at + 1, Len(sorted))

RECURSIVE BinaryInsertionSort(_, _)
BinaryInsertionSort(sorted, rest) ==
    IF rest = <<>> THEN sorted
    ELSE BinaryInsertionSort(
             InsertAt(sorted,
                      BinarySearch(sorted, Head(rest), 0, Len(sorted)),
                      Head(rest)),
             Tail(rest))

TimSortRun(patches, isDescending, runLength) ==
    BinaryInsertionSort(
        IF isDescending THEN Reverse(SubSeq(patches, 1, runLength))
        ELSE SubSeq(patches, 1, runLength),
        SubSeq(patches, runLength + 1, Len(patches)))

TimSortFrom(patches, isDescending) ==
    TimSortRun(patches, isDescending, RunEnd(patches, 2, isDescending))

TimSort(patches) ==
    IF Len(patches) < 2 THEN patches
    ELSE TimSortFrom(patches, HlcOrder(patches[2], patches[1]) < 0)

\* [...patches].sort(comparator) as JavaScriptCore (Bun) runs it: a bottom-up
\* merge sort that takes from the right half only what compares below the
\* left half's head
RECURSIVE Merge(_, _)
Merge(left, right) ==
    IF right = <<>> THEN left
    ELSE IF left = <<>> THEN right
    ELSE IF HlcOrder(Head(right), Head(left)) < 0
    THEN <<Head(right)>> \o Merge(left, Tail(right))
    ELSE <<Head(left)>> \o Merge(Tail(left), right)

RECURSIVE MergePass(_, _)
MergePass(src, width) ==
    IF Len(src) <= width THEN src
    ELSE Merge(SubSeq(src, 1, width),
               SubSeq(src, width + 1,
                      IF 2 * width < Len(src) THEN 2 * width ELSE Len(src)))
         \o MergePass(SubSeq(src, 2 * width + 1, Len(src)), width)

RECURSIVE MergeSortFrom(_, _)
MergeSortFrom(src, width) ==
    IF width >= Len(src) THEN src
    ELSE MergeSortFrom(MergePass(src, width), 2 * width)

MergeSort(patches) == MergeSortFrom(patches, 1)

\* the orders [...patches].sort(comparator) can give: HlcOrder answers 0 for
\* a patch without hlc against anything, which is not a consistent
\* comparator on a batch that mixes both kinds, so the order is the engine's
SortOutcomes(patches) == {TimSort(patches), MergeSort(patches)}

CombinedKeepsFirstHlc(operations) ==
    IF operations # <<>> /\ Total(operations) # 0
    THEN <<[operations[1] EXCEPT !.value = Num(Total(operations))]>>
    ELSE <<>>

\* all increments (decrements) of a path merged into one, unless they sum to 0
Combined(operations) ==
    IF operations # <<>> /\ Total(operations) # 0
    THEN <<[operations[1] EXCEPT !.value = Num(Total(operations)),
                                 !.hlc = Latest(operations).hlc]>>
    ELSE <<>>

resolveCRDTConflictsUnsorted(operations) ==
    LET increments == SelectSeq(operations, LAMBDA o : o.op = "increment")
        decrements == SelectSeq(operations, LAMBDA o : o.op = "decrement")
        appends    == SelectSeq(operations, LAMBDA o : o.op = "append")
        others     == SelectSeq(operations,
                          LAMBDA o : o.op \notin {"increment", "decrement", "append"})
    IN  Combined(increments)
        \o Combined(decrements)
        \o appends
        \o (IF others # <<>> THEN <<Latest(others)>> ELSE <<>>)

resolveCRDTConflicts(operations) ==
    LET increments == SelectSeq(operations, LAMBDA o : o.op = "increment")
        decrements == SelectSeq(operations, LAMBDA o : o.op = "decrement")
        appends    == SelectSeq(operations, LAMBDA o : o.op = "append")
        others     == SelectSeq(operations,
                          LAMBDA o : o.op \notin {"increment", "decrement", "append"})
    IN  Combined(increments)
        \o Combined(decrements)
        \o sortByHlc(appends)
        \o (IF others # <<>> THEN <<Latest(others)>> ELSE <<>>)

ResolveGroupKeepsFirst(groupPatches) ==
    IF Len(groupPatches) = 1 THEN groupPatches
    ELSE LET crdtOps     == SelectSeq(groupPatches, IsCRDT)
             standardOps == SelectSeq(groupPatches,
                                LAMBDA q : "type" \notin DOMAIN q)
         IN  (IF crdtOps # <<>> THEN resolveCRDTConflicts(crdtOps) ELSE <<>>)
             \o (IF standardOps # <<>> THEN <<standardOps[1]>> ELSE <<>>)

ResolveGroup(groupPatches) ==
    IF Len(groupPatches) = 1 THEN groupPatches
    ELSE LET crdtOps     == SelectSeq(groupPatches, IsCRDT)
             standardOps == SelectSeq(groupPatches,
                                LAMBDA q : "type" \notin DOMAIN q)
         IN  (IF crdtOps # <<>> THEN resolveCRDTConflicts(crdtOps) ELSE <<>>)
             \o (IF standardOps # <<>>
                 THEN <<standardOps[Len(standardOps)]>> ELSE <<>>)

RECURSIVE ResolveGroups(_, _)
ResolveGroups(paths, patches) ==
    IF paths = <<>> THEN <<>>
    ELSE ResolveGroup(SelectSeq(patches, LAMBDA q : q.path = Head(paths)))
         \o ResolveGroups(Tail(paths), patches)

resolveConflicts(patches) == ResolveGroups(PathsOf(patches, <<>>), patches)

(***************************************************************************)
(* patches: application.  A draft is the state being built; Thrown stands  *)
(* for an error raised inside the recipe, which leaves the state as it was.*)
(***************************************************************************)
IncrementOverwrites(draft, operation, current) ==
    IF current.kind = "number" /\ operation.value.kind = "number"
    THEN setValueAtPath(draft, operation.path, operation.value)
    ELSE draft

\* case "increment"
Increment(draft, operation, current) ==
    IF current.kind = "number" /\ operation.value.kind = "number"
    THEN setValueAtPath(draft, operation.path,
                        Num(current.val + operation.value.val))
    ELSE draft

DecrementFromZero(draft, operation, current) ==
    IF operation.value.kind = "number"
    THEN setValueAtPath(draft, operation.path,
                        Num((IF current.kind = "number" THEN current.val ELSE 0)
                            - operation.value.val))
    ELSE draft

\* case "decrement"
Decrement(draft, operation, current) ==
    IF current.kind = "number" /\ operation.value.kind = "number"
    THEN setValueAtPath(draft, operation.path,
                        Num(current.val - operation.value.val))
    ELSE draft

RECURSIVE AssignDeep(_, _)
AssignDeep(current, value) ==
    Obj([key \in Keys(current) \cup Keys(value) |->
            IF key \notin Keys(value) THEN current.val[key]
            ELSE IF /\ key \in Keys(current)
                    /\ current.val[key].kind = "object"
                    /\ value.val[key].kind = "object"
            THEN AssignDeep(current.val[key], value.val[key])
            ELSE value.val[key]])

\* Object.assign(current, value)
Assign(current, value) ==
    Obj([key \in Keys(current) \cup Keys(value) |->
            IF key \in Keys(value) THEN value.val[key] ELSE current.val[key]])

ApplyOperationAppendsOnce(draft, operation, current) ==
    CASE operation.op = "increment" -> Increment(draft, operation, current)
      [] operation.op = "decrement" -> Decrement(draft, operation, current)
      [] operation.op = "append" ->
             IF /\ current.kind = "array"
                /\ \A i \in 1..Len(current.val) :
                       current.val[i] # operation.value
             THEN ReplaceAt(draft, operation.path,
                            Arr(Append(current.val, operation.value)))
             ELSE draft
      [] operation.op = "merge" ->
             IF isPlainObject(current) /\ isPlainObject(operation.value)
             THEN ReplaceAt(draft, operation.path,
                            Assign(current, operation.value))
             ELSE setValueAtPath(draft, operation.path, operation.value)
      [] operation.op = "replace" ->
             setValueAtPath(draft, operation.path, operation.value)
      [] OTHER -> draft

\* the switch on operation.op, current read from the draft
ApplyOperation(draft, operation, current) ==
    CASE operation.op = "increment" -> Increment(draft, operation, current)
      [] operation.op = "decrement" -> Decrement(draft, operation, current)
      [] operation.op = "append" ->
             IF current.kind = "array"
             THEN ReplaceAt(draft, operation.path,
                            Arr(Append(current.val, operation.value)))
             ELSE draft
      [] operation.op = "merge" ->
             IF isPlainObject(current) /\ isPlainObject(operation.value)
             THEN ReplaceAt(draft, operation.path,
                            Assign(current, operation.value))
             ELSE setValueAtPath(draft, operation.path, operation.value)
      [] operation.op = "replace" ->
             setValueAtPath(draft, operation.path, operation.value)
      [] OTHER -> draft

applyCRDTOperation(draft, operation) ==
    ApplyOperation(draft, operation, getValueAtPath(draft, operation.path))

applyStandardPatch(draft, patch) ==
    CASE patch.op \in {"replace", "add"} ->
             IF patch.value.kind # "undefined"
             THEN setValueAtPath(draft, patch.path, patch.value)
             ELSE draft
      [] patch.op = "remove" -> removeValueAtPath(draft, patch.path)
      [] OTHER -> draft

\* the recipe's loop over the sorted patches
RECURSIVE ApplyEach(_, _)
ApplyEach(draft, patches) ==
    IF patches = <<>> \/ draft = Thrown THEN draft
    ELSE ApplyEach(IF IsCRDT(Head(patches))
                   THEN applyCRDTOperation(draft, Head(patches))
                   ELSE applyStandardPatch(draft, Head(patches)),
                   Tail(patches))

\* applyEnhancedPatches(state, patches): the next state, or Thrown
applyEnhancedPatches(state, patches) == ApplyEach(state, sortByHlc(patches))

\* the recipe's loop stopped at the first patch that fails, the patches
\* before it applied
RECURSIVE ApplyPrefix(_, _)
ApplyPrefix(draft, patches) ==
    IF patches = <<>> THEN draft
    ELSE LET Step(next) ==
                 IF next = Thrown THEN draft
                 ELSE ApplyPrefix(next, Tail(patches))
         IN  Step(IF IsCRDT(Head(patches))
                  THEN applyCRDTOperation(draft, Head(patches))
                  ELSE applyStandardPatch(draft, Head(patches)))

applyPatchesPartially(currState, patches) ==
    ApplyPrefix(currState, sortByHlc(patches))

\* store[UPDATE_STATE_SYMBOL](newState): how often each listener is called.
\* A call that failed never gets here; newState !== currentState holds when
\* the contents differ, and when they are equal it depends on whether the
\* recipe assigned anything
UpdateNotifies(currState, nextState) ==
    IF nextState = Thrown THEN {0}
    ELSE IF nextState # currState THEN {1}
    ELSE {0, 1}

\* applyPatches(store, patches): the store's next currentState; an error
\* leaves the store before the update
applyPatches(currState, patches) ==
    LET Update(nextState) ==
            IF nextState = Thrown THEN currState ELSE nextState
    IN  Update(applyEnhancedPatches(currState, patches))

applyPatchesWithConflictResolution(currState, patches) ==
    applyPatches(currState, resolveConflicts(patches))

(***************************************************************************)
(* The drafting engine (mutative's create with patches) for the mutations  *)
(* the model makes: the next state and the structural patches, whose paths *)
(* are segment lists.                                                      *)
(***************************************************************************)
CounterKey == <<99>>    \* "c": a numeric counter
ListKey    == <<108>>   \* "l": an array
RecordKey  == <<114>>   \* "r": a record with the one key "k"
InnerKey   == <<107>>   \* "k"

\* draft.c += by
AddToCounter(state, by) ==
    LET next == Num(state.val[CounterKey].val + by)
    IN  [nextState |-> SetProp(state, CounterKey, next),
         patches   |-> IF by = 0 THEN <<>>
                       ELSE <<[op |-> "replace", path |-> <<CounterKey>>,
                               value |-> next]>>]

\* draft.l.push(element)
PushToList(state, element) ==
    LET list == state.val[ListKey].val
    IN  [nextState |-> SetProp(state, ListKey, Arr(Append(list, element))),
         patches   |-> <<[op |-> "add",
                          path |-> <<ListKey, toString(Len(list), 10)>>,
                          value |-> element]>>]

\* draft.r = { k: value }
SetRecord(state, value) ==
    LET record == Obj(Field(InnerKey, value))
    IN  [nextState |-> SetProp(state, RecordKey, record),
         patches   |-> <<[op |-> "replace", path |-> <<RecordKey>>,
                          value |-> record]>>]

Mutations ==
    [kind : {"add"}, by : {1, 2}]
        \cup [kind : {"push"}, element : {Num(7), Num(8)}]
        \cup [kind : {"set"}, value : {Num(1), Num(2)}]

\* draft.c += by; draft.l.push(element): one mutation, two patches, the
\* patch of the nested draft before the patch of the root
AddAndPush(state, by, element) ==
    LET Both(added, pushed) ==
            [nextState |-> pushed.nextState,
             patches   |-> pushed.patches \o added.patches]
        ThenPush(added) ==
            Both(added, PushToList(added.nextState, element))
    IN  ThenPush(AddToCounter(state, by))

BatchMutations == [kind : {"both"}, by : {1}, element : {Num(7)}]

\* draft.l.push(first); draft.l.push(second): one add patch per new index
PushTwice(state, first, second) ==
    LET Both(one, two) ==
            [nextState |-> two.nextState,
             patches   |-> one.patches \o two.patches]
        ThenPush(one) == Both(one, PushToList(one.nextState, second))
    IN  ThenPush(PushToList(state, first))

\* draft.r = record, record being a new object
ReplaceRecord(state, record) ==
    [nextState |-> SetProp(state, RecordKey, record),
     patches   |-> <<[op |-> "replace", path |-> <<RecordKey>>,
                      value |-> record]>>]

Draft(state, mutation) ==
    CASE mutation.kind = "add"  -> AddToCounter(state, mutation.by)
      [] mutation.kind = "push" -> PushToList(state, mutation.element)
      [] mutation.kind = "set"  -> SetRecord(state, mutation.value)
      [] mutation.kind = "both" ->
             AddAndPush(state, mutation.by, mutation.element)
      [] mutation.kind = "pushes" ->
             PushTwice(state, mutation.first, mutation.second)
      [] mutation.kind = "record" -> ReplaceRecord(state, mutation.record)

\* createPatchesFromMutation: the engine's patches with string paths
createPatchesFromMutation(state, mutation) ==
    LET WithStringPaths(drafted) ==
            [nextState |-> drafted.nextState,
             patches   |-> [i \in 1..Len(drafted.patches) |->
                               StandardPatch(drafted.patches[i].op,
                                             <<47>> \o join(drafted.patches[i].path),
                                             drafted.patches[i].value)]]
    IN  WithStringPaths(Draft(state, mutation))

\* mutateWithPatches(store, updater): the store's next state, the enhanced
\* patches returned and the module-level clock afterwards
mutateWithPatches(currState, mutation, hlc, readings) ==
    LET Result(created, enhanced) ==
            [nextState |-> created.nextState,
             patches   |-> enhanced.patches,
             hlc       |-> enhanced.hlc]
        Enhance(created) ==
            Result(created,
                   enhancePatches(created.patches, currState, hlc, readings))
    IN  Enhance(createPatchesFromMutation(currState, mutation))

(***************************************************************************)
(* Inputs                                                                  *)
(***************************************************************************)
Readings == 0..MaxTime                 \* values Date.now() returns
ActorIds == {<<97>>, <<98>>}           \* "a", "b"
\* actor ids whose order exercises prefixes: "", "a", "ab", "b"
OrderedActorIds == {<<>>, <<97>>, <<97, 98>>, <<98>>}
\* actor ids next to the count field: "", "a", "1"
CodecActorIds == {<<>>, <<97>>, <<49>>}

Clocks(actors) ==
    [timestamp : 0..MaxTime, count : 0..MaxCount, actor : actors]

\* physical times and counts whose digits change length or letter in base
\* 36 and base 16 (35 = "z", 36 = "10"; 15 = "f", 16 = "10", 65535 = "ffff",
\* 65536 = "10000")
CodecClocks ==
    [timestamp : (0..MaxTime) \cup {35, 36},
     count     : (0..MaxCount) \cup {15, 16, 65535, 65536},
     actor     : CodecActorIds]

\* the values the variables of a part of the model hold while another part runs
NoClock == createHLC(<<>>, 0)
ClockIdle ==
    /\ hlcLocal = NoClock
    /\ hlcRemote = NoClock
    /\ trail = <<>>
    /\ trailOps = <<>>
FnIdle ==
    /\ hlcA = NoClock
    /\ hlcB = NoClock
    /\ hlcC = NoClock
    /\ fnOut = [fn |-> "none"]
DetectIdle ==
    /\ hlcInstance = NoClock
    /\ prevState = Undefined
    /\ stamped = <<>>
ReplicaIdle ==
    /\ store = <<>>
    /\ clock = <<>>
    /\ outbox = <<>>
    /\ applied = <<>>
    /\ localOps = <<>>
    /\ initialState = <<>>
TrieIdle ==
    /\ root = (<<>> :> {})
    /\ generation = 0
    /\ handles = {}
    /\ calls = 0

(***************************************************************************)
(* SpecClock: one actor's clock under tick and receive                     *)
(***************************************************************************)
InitClock ==
    /\ hlcLocal \in Clocks(ActorIds)
    /\ hlcRemote \in Clocks(ActorIds)
    /\ trail = <<hlcLocal>>
    /\ trailOps = <<[op |-> "create", now |-> hlcLocal.timestamp]>>
    /\ FnIdle /\ DetectIdle /\ ReplicaIdle /\ TrieIdle

\* hlc = tick(hlc, now)
Tick(now) ==
    /\ Len(trail) <= MaxSteps
    /\ hlcLocal' = tick(hlcLocal, now)
    /\ trail' = Append(trail, hlcLocal')
    /\ trailOps' = Append(trailOps, [op |-> "tick", now |-> now])
    /\ UNCHANGED <<hlcRemote, fnVars, detectVars, replicaVars, trieVars>>

\* hlc = receive(hlc, remote, now)
Receive(now) ==
    /\ Len(trail) <= MaxSteps
    /\ hlcLocal' = receive(hlcLocal, hlcRemote, now)
    /\ trail' = Append(trail, hlcLocal')
    /\ trailOps' = Append(trailOps, [op |-> "receive", now |-> now])
    /\ UNCHANGED <<hlcRemote, fnVars, detectVars, replicaVars, trieVars>>

NextClock ==
    \/ \E now \in Readings : Tick(now)
    \/ \E now \in Readings : Receive(now)

SpecClock == InitClock /\ [][NextClock]_vars

(***************************************************************************)
(* SpecCompare: compare applied to three clocks                            *)
(***************************************************************************)
InitCompare ==
    /\ hlcA \in Clocks(OrderedActorIds)
    /\ hlcB \in Clocks(OrderedActorIds)
    /\ hlcC \in Clocks(OrderedActorIds)
    /\ fnOut = [fn |-> "none"]
    /\ ClockIdle /\ DetectIdle /\ ReplicaIdle /\ TrieIdle

Compare ==
    /\ fnOut.fn = "none"
    /\ fnOut' = [fn |-> "compare",
                 ab |-> compare(hlcA, hlcB),
                 ba |-> compare(hlcB, hlcA),
                 bc |-> compare(hlcB, hlcC),
                 ac |-> compare(hlcA, hlcC)]
    /\ UNCHANGED <<hlcA, hlcB, hlcC, clockVars, detectVars, replicaVars, trieVars>>

NextCompare == Compare

SpecCompare == InitCompare /\ [][NextCompare]_vars

(***************************************************************************)
(* SpecCodec: asString and fromString applied to two clocks                *)
(***************************************************************************)
InitCodec ==
    /\ hlcA \in CodecClocks
    /\ hlcB \in CodecClocks
    /\ hlcC = NoClock
    /\ fnOut = [fn |-> "none"]
    /\ ClockIdle /\ DetectIdle /\ ReplicaIdle /\ TrieIdle

\* asString(a), asString(b)
Encode ==
    /\ fnOut.fn = "none"
    /\ fnOut' = [fn |-> "asString", a |-> asString(hlcA), b |-> asString(hlcB)]
    /\ UNCHANGED <<hlcA, hlcB, hlcC, clockVars, detectVars, replicaVars, trieVars>>

\* fromString of the first n characters of asString(a): the whole encoding
\* when n is its length, a truncated one when n is smaller
Decode(n) ==
    /\ fnOut.fn = "none"
    /\ LET encoded == slice(asString(hlcA), 0, n)
       IN  fnOut' = [fn      |-> "fromString",
                     encoded |-> encoded,
                     whole   |-> n = Len(asString(hlcA)),
                     threw   |-> fromStringThrows(encoded),
                     decoded |-> fromString(encoded)]
    /\ UNCHANGED <<hlcA, hlcB, hlcC, clockVars, detectVars, replicaVars, trieVars>>

NextCodec ==
    \/ Encode
    \/ \E n \in {0, 1, TS_LENGTH, TS_LENGTH + 1, TS_LENGTH + COUNT_LENGTH - 1,
                 TS_LENGTH + COUNT_LENGTH, Len(asString(hlcA))} : Decode(n)

SpecCodec == InitCodec /\ [][NextCodec]_vars

(***************************************************************************)
(* SpecDetect: one process mutating its store with mutateWithPatches       *)
(***************************************************************************)
\* { c: counter, l: [], r: { k: 0 } }
Document(counter) ==
    Obj(Field(CounterKey, Num(counter))
        @@ Field(ListKey, Arr(<<>>))
        @@ Field(RecordKey, Obj(Field(InnerKey, Num(0)))))

InitialStates == {Document(0), Document(5)}

\* the clock setActorId creates, and that clock after it has stamped
\* 16^4 - 2 operations while Date.now() stayed at or behind its physical time
StartClocks(actor) ==
    [timestamp : Readings,
     count     : {0, COUNT_BASE^COUNT_LENGTH - 2},
     actor     : {actor}]

InitDetect ==
    /\ hlcInstance \in StartClocks(<<97>>)
    /\ prevState = Document(0)
    /\ stamped = <<>>
    /\ ClockIdle /\ FnIdle /\ ReplicaIdle /\ TrieIdle

Stamps(patches) ==
    LET HlcsOf(classified) ==
            [i \in 1..Len(classified) |-> classified[i].hlc]
    IN  HlcsOf(SelectSeq(patches, HasHlc))

\* mutateWithPatches(store, updater); readings[i] is what Date.now() returns
\* when patch i is stamped
MutateWithPatches(mutation, readings) ==
    /\ Len(stamped) + Len(readings) <= MaxOps
    /\ \E result \in {mutateWithPatches(prevState, mutation, hlcInstance,
                                        readings)} :
           /\ prevState' = result.nextState
           /\ hlcInstance' = result.hlc
           /\ stamped' = stamped \o Stamps(result.patches)
    /\ UNCHANGED <<clockVars, fnVars, replicaVars, trieVars>>

NextDetect ==
    \/ \E mutation \in Mutations, now \in Readings :
           MutateWithPatches(mutation, <<now>>)
    \/ \E mutation \in BatchMutations, first \in Readings, second \in Readings :
           MutateWithPatches(mutation, <<first, second>>)

SpecDetect == InitDetect /\ [][NextDetect]_vars

(***************************************************************************)
(* Spec: two replicas, each with its own process, store and clock, that    *)
(* mutate locally and apply each other's batches in the order produced     *)
(***************************************************************************)
Replicas == {1, 2}
Peer(r) == 3 - r
ActorOf(r) == IF r = 1 THEN <<97>> ELSE <<98>>   \* setActorId("a"), ("b")

\* the updaters replica r runs: draft.c += r, draft.l.push(6 + r),
\* draft.r = { k: r }
MutationsOf(r) ==
    [kind : {"add"}, by : {r}]
        \cup [kind : {"push"}, element : {Num(6 + r)}]
        \cup [kind : {"set"}, value : {Num(r)}]

Init ==
    /\ initialState \in InitialStates
    /\ store = [r \in Replicas |-> initialState]
    /\ clock \in [Replicas -> [timestamp : Readings, count : {0},
                               actor : {<<97>>, <<98>>}]]
    /\ \A r \in Replicas : clock[r] = createHLC(ActorOf(r), clock[r].timestamp)
    /\ outbox = [r \in Replicas |-> <<>>]
    /\ applied = [r \in Replicas |-> 0]
    /\ localOps = [r \in Replicas |-> <<>>]
    /\ ClockIdle /\ FnIdle /\ DetectIdle /\ TrieIdle

\* replica r: mutateWithPatches(store, updater)
Mutate(r, mutation, now) ==
    /\ Len(localOps[1]) + Len(localOps[2]) < MaxLocal
    /\ \E result \in {mutateWithPatches(store[r], mutation, clock[r], <<now>>)} :
           /\ store' = [store EXCEPT ![r] = result.nextState]
           /\ clock' = [clock EXCEPT ![r] = result.hlc]
           /\ outbox' = [outbox EXCEPT ![r] = Append(@, result.patches)]
    /\ localOps' = [localOps EXCEPT ![r] =
                       Append(@, [mutation |-> mutation,
                                  hadApplied |-> applied[r]])]
    /\ UNCHANGED <<applied, initialState, clockVars, fnVars, detectVars,
                   trieVars>>

\* replica r: applyPatchesWithConflictResolution(store, batch) for the next
\* batch of its peer
Deliver(r) ==
    /\ applied[r] < Len(outbox[Peer(r)])
    /\ store' = [store EXCEPT ![r] =
                    applyPatchesWithConflictResolution(
                        @, outbox[Peer(r)][applied[r] + 1])]
    /\ applied' = [applied EXCEPT ![r] = @ + 1]
    /\ UNCHANGED <<clock, outbox, localOps, initialState,
                   clockVars, fnVars, detectVars, trieVars>>

Next ==
    \/ \E r \in Replicas :
           \E mutation \in MutationsOf(r), now \in Readings :
               Mutate(r, mutation, now)
    \/ \E r \in Replicas : Deliver(r)

Spec == Init /\ [][Next]_vars

(***************************************************************************)
(* Properties of the clock                                                 *)
(***************************************************************************)
TickedBetween(i, j) == \A k \in (i + 1)..j : trailOps[k].op = "tick"

\* C4: tick(c, now) compares strictly greater than c for every reading now,
\* so the timestamps of any run of ticks of one clock are strictly
\* increasing under compare, whatever the readings.
C4_TickStrictlyIncreases ==
    \A i \in 1..Len(trail), j \in 1..Len(trail) :
        (i < j /\ TickedBetween(i, j)) => compare(trail[i], trail[j]) < 0

\* two ticks in a row, the first with a reading behind the clock and the
\* second with a smaller reading still
C4_Witness ==
    /\ Len(trail) = 3
    /\ TickedBetween(1, 3)
    /\ trailOps[2].now < trail[1].timestamp
    /\ trailOps[3].now < trailOps[2].now
    /\ trail[3].count = trail[1].count + 2

\* C6: m = receive(local, remote, now) has compare(local, m) <= 0 and
\* compare(remote, m) <= 0 and local's actor id; every tick after the
\* receive yields a timestamp strictly greater than remote.
C6_ReceiveDominates ==
    \A i \in 2..Len(trail) :
        trailOps[i].op = "receive" =>
            /\ compare(trail[i - 1], trail[i]) <= 0
            /\ compare(hlcRemote, trail[i]) <= 0
            /\ trail[i].actor = trail[i - 1].actor
            /\ \A j \in (i + 1)..Len(trail) :
                   trailOps[j].op = "tick" => compare(hlcRemote, trail[j]) < 0

\* a receive from a remote clock that is ahead of the local clock and of the
\* reading, followed by a tick
C6_Witness ==
    /\ Len(trail) = 3
    /\ trailOps[2].op = "receive"
    /\ trailOps[3].op = "tick"
    /\ hlcRemote.timestamp > trail[1].timestamp
    /\ hlcRemote.timestamp > trailOps[2].now
    /\ hlcRemote.actor # trail[1].actor

\* C7: compare is a strict total order by timestamp, then count, then actor
\* id: it is 0 exactly for equal clocks, its sign flips when the arguments
\* are swapped, and it is transitive.
C7_CompareTotalOrder ==
    fnOut.fn = "compare" =>
        /\ fnOut.ab = 0 <=> hlcA = hlcB
        /\ Sign(fnOut.ab) = 0 - Sign(fnOut.ba)
        /\ (fnOut.ab < 0 /\ fnOut.bc < 0) => fnOut.ac < 0
        /\ hlcA.timestamp < hlcB.timestamp => fnOut.ab < 0
        /\ (hlcA.timestamp = hlcB.timestamp /\ hlcA.count < hlcB.count)
               => fnOut.ab < 0
        /\ ( /\ hlcA.timestamp = hlcB.timestamp
             /\ hlcA.count = hlcB.count
             /\ StrLess(hlcA.actor, hlcB.actor) ) => fnOut.ab < 0

\* a < b by actor id alone ("a" before "ab"), b < c by count, and a < c
C7_Witness ==
    /\ fnOut.fn = "compare"
    /\ hlcA.timestamp = hlcB.timestamp /\ hlcA.count = hlcB.count
    /\ hlcA.actor = <<97>> /\ hlcB.actor = <<97, 98>>
    /\ hlcB.timestamp = hlcC.timestamp /\ hlcB.count < hlcC.count
    /\ fnOut.ab < 0 /\ fnOut.bc < 0 /\ fnOut.ac < 0

\* C8: fromString(asString(c)) = c in all three fields for every clock with
\* timestamp < 36^10 and count < 16^4, whatever the actor id.
C8_RoundTrip ==
    (fnOut.fn = "fromString" /\ fnOut.whole /\ InFieldBounds(hlcA))
        => fnOut.decoded = hlcA

\* the largest count of the field, "ffff", before an empty actor id
C8_Witness ==
    /\ fnOut.fn = "fromString" /\ fnOut.whole
    /\ hlcA.count = 65535 /\ hlcA.timestamp = 36 /\ hlcA.actor = <<>>
    /\ fnOut.decoded.count = 65535

\* C9: for clocks within the field bounds, asString(a) < asString(b)
\* lexicographically exactly when compare(a, b) < 0.
C9_StringOrderIsCompareOrder ==
    (fnOut.fn = "asString" /\ InFieldBounds(hlcA) /\ InFieldBounds(hlcB))
        => (StrLess(fnOut.a, fnOut.b) <=> compare(hlcA, hlcB) < 0)

\* "z" against "10" in base 36: the shorter digit string is the smaller time
C9_Witness ==
    /\ fnOut.fn = "asString"
    /\ hlcA.timestamp = 2 /\ hlcB.timestamp = 36
    /\ hlcA.count = 16 /\ hlcB.count = 15
    /\ StrLess(fnOut.a, fnOut.b)

MinEncodedLength == TS_LENGTH + COUNT_LENGTH + 1

\* C10 as stated: decoding a string shorter than 15 characters raises a
\* malformed-timestamp error.
C10_ShortInputRaises ==
    (fnOut.fn = "fromString" /\ Len(fnOut.encoded) < MinEncodedLength)
        => fnOut.threw

\* C10 as amended: decoding a string shorter than 15 characters raises no
\* error and returns a record read at the fixed offsets: a 14-character
\* encoding (empty actor id) decodes to the clock it encodes; a shorter string
\* gives an empty actor id, a count that is not a number when it has at most
\* 10 characters and a timestamp that is not a number when it is empty.
C10_ShortInputDecodesWithoutError ==
    (fnOut.fn = "fromString" /\ Len(fnOut.encoded) < MinEncodedLength) =>
        /\ ~fnOut.threw
        /\ fnOut.decoded.actor = <<>>
        /\ fnOut.decoded.count = NaN <=> Len(fnOut.encoded) <= TS_LENGTH
        /\ fnOut.decoded.timestamp = NaN <=> Len(fnOut.encoded) = 0
        /\ fnOut.whole => fnOut.decoded = hlcA

\* an encoding cut after its ten timestamp digits
C10_Witness ==
    /\ fnOut.fn = "fromString"
    /\ Len(fnOut.encoded) = TS_LENGTH
    /\ ~fnOut.whole
    /\ ~fnOut.threw
    /\ fnOut.decoded.timestamp = hlcA.timestamp
    /\ fnOut.decoded.count = NaN

(***************************************************************************)
(* Properties of the stamps one process puts on its operations             *)
(***************************************************************************)
\* C5: the timestamps one actor stamps on its classified operations are
\* strictly increasing in creation order under compare, within one batch and
\* across batches, for any wall-clock readings.
C5_StampsStrictlyIncrease ==
    \A i \in 1..Len(stamped), j \in 1..Len(stamped) :
        i < j => compare(fromString(stamped[i]), fromString(stamped[j])) < 0

(***************************************************************************)
(* Properties of two replicas exchanging their batches                     *)
(***************************************************************************)
\* each replica has made one local mutation of the given kind before it
\* applied anything of its peer
EachMutatedOnce(kind) ==
    \A r \in Replicas :
        /\ Len(localOps[r]) = 1
        /\ localOps[r][1].mutation.kind = kind
        /\ localOps[r][1].hadApplied = 0

BothApplied == \A r \in Replicas : applied[r] = 1

Counter(state) == state.val[CounterKey].val
List(state) == state.val[ListKey].val
InnerValue(state) == Prop(state.val[RecordKey], InnerKey)

\* the hlc of the one operation replica r has produced
StampOf(r) == fromString(outbox[r][1][1].hlc)

\* C1: two replicas that start from the same counter and increment it locally
\* by a and by b hold initial + a + b once they have applied the other's
\* batch, whichever of them applies first.
C1_ConcurrentIncrementsAdd ==
    EachMutatedOnce("add") =>
        \A r \in Replicas :
            applied[r] = 1 =>
                Counter(store[r]) = Counter(initialState)
                                        + localOps[1][1].mutation.by
                                        + localOps[2][1].mutation.by

\* both replicas have incremented a counter that started at 5 and applied the
\* other's increment
C1_Witness ==
    /\ EachMutatedOnce("add")
    /\ BothApplied
    /\ Counter(initialState) = 5
    /\ localOps[1][1].mutation.by # localOps[2][1].mutation.by
    /\ outbox[1][1][1].op = "increment"
    /\ outbox[2][1][1].op = "increment"
    /\ Counter(store[1]) = 8

\* C2: two replicas that start from the same array and append one element
\* each hold, once both have applied the other's batch, the same array: the
\* two elements in ascending order of the appends' timestamps.
C2_ConcurrentAppendsConverge ==
    (EachMutatedOnce("push") /\ BothApplied) =>
        /\ List(store[1]) = List(store[2])
        /\ \A r \in Replicas :
               List(store[r]) =
                   IF compare(StampOf(1), StampOf(2)) < 0
                   THEN <<localOps[1][1].mutation.element,
                          localOps[2][1].mutation.element>>
                   ELSE <<localOps[2][1].mutation.element,
                          localOps[1][1].mutation.element>>

\* C3: two replicas that replace the same record, giving different values to
\* the same key, hold once both have applied the other's batch the same
\* value for the key: the one written with the greater timestamp.
C3_ConcurrentMergesLastWriterWins ==
    (EachMutatedOnce("set") /\ BothApplied) =>
        /\ InnerValue(store[1]) = InnerValue(store[2])
        /\ \A r \in Replicas :
               InnerValue(store[r]) =
                   IF compare(StampOf(1), StampOf(2)) > 0
                   THEN localOps[1][1].mutation.value
                   ELSE localOps[2][1].mutation.value

(***************************************************************************)
(* SpecEnhance: enhancePatches applied to a batch of structural patches    *)
(***************************************************************************)
NestedKey  == <<110>>   \* "n": a key of the record holding a nested record
TextKey    == <<115>>   \* "s": a string
ExtraKey   == <<106>>   \* "j": a key no state has
NestedRef  == 1         \* the nested record of the previous state, as an object

\* { c: counter, l: list, r: { k: 0, n: {} }, s: "x" }
EnhanceDocument(counter, list) ==
    Obj(Field(CounterKey, Num(counter))
        @@ Field(ListKey, Arr(list))
        @@ Field(RecordKey,
                 Obj(Field(InnerKey, Num(0))
                     @@ Field(NestedKey, Ref(Obj(NoFields), NestedRef))))
        @@ Field(TextKey, Str(<<120>>)))

EnhanceStates ==
    {EnhanceDocument(counter, list) :
        counter \in {0, 5}, list \in {<<>>, <<Num(7)>>}}

\* "/" + parts.join("/")
PathOf(parts) == <<47>> \o join(parts)

\* the records a patch may put in place of r
SameRecord    == Obj(Field(InnerKey, Num(0))
                     @@ Field(NestedKey, Ref(Obj(NoFields), NestedRef)))
EqualRecord   == Obj(Field(InnerKey, Num(0))
                     @@ Field(NestedKey, Obj(NoFields)))
ChangedRecord == Obj(Field(InnerKey, Num(1))
                     @@ Field(NestedKey, Ref(Obj(NoFields), NestedRef)))
WiderRecord   == Obj(Field(InnerKey, Num(0))
                     @@ Field(NestedKey, Ref(Obj(NoFields), NestedRef))
                     @@ Field(ExtraKey, Num(1)))
NarrowRecord  == Obj(Field(InnerKey, Num(0)))

\* the last segments of add patches under l: "0", "1", "2", "-", "1a", "01"
ListSegments ==
    {<<48>>, <<49>>, <<50>>, <<45>>, <<49, 97>>, <<48, 49>>}

ReplacePatches ==
    {StandardPatch("replace", PathOf(<<CounterKey>>), value) :
        value \in {Num(0), Num(3), Num(5), Num(8), Str(<<120>>)}}
    \cup {StandardPatch("replace", PathOf(<<RecordKey>>), value) :
        value \in {SameRecord, EqualRecord, ChangedRecord, WiderRecord,
                   NarrowRecord, Arr(<<>>), Num(1)}}
    \cup {StandardPatch("replace", PathOf(<<ListKey>>), Arr(<<Num(7)>>)),
          StandardPatch("replace", PathOf(<<TextKey>>), Str(<<121>>)),
          StandardPatch("replace", PathOf(<<TextKey>>), Num(1)),
          StandardPatch("replace", PathOf(<<ExtraKey>>), Num(1)),
          StandardPatch("replace", PathOf(<<RecordKey, InnerKey>>), Num(2))}

AddPatches ==
    {StandardPatch("add", PathOf(<<ListKey, segment>>), value) :
        segment \in ListSegments, value \in {Num(8), Undefined}}
    \cup {StandardPatch("add", PathOf(<<RecordKey, ExtraKey>>), Num(1)),
          StandardPatch("add", PathOf(<<ExtraKey>>), Arr(<<>>)),
          StandardPatch("add", PathOf(<<TextKey, <<49>>>>), Num(1))}

RemovePatches ==
    {StandardPatch("remove", PathOf(<<RecordKey, InnerKey>>), Undefined),
     StandardPatch("remove", PathOf(<<ListKey, <<48>>>>), Undefined)}

StructuralPatches == ReplacePatches \cup AddPatches \cup RemovePatches

InitEnhance ==
    /\ hlcInstance \in Clocks({<<97>>})
    /\ prevState \in EnhanceStates
    /\ stamped = <<>>
    /\ ClockIdle /\ FnIdle /\ ReplicaIdle /\ TrieIdle

\* enhancePatches(patches, prevState, nextState); readings[i] is what
\* Date.now() returns if patches[i] is stamped
EnhancePatches(patches, readings) ==
    /\ fnOut.fn = "none"
    /\ \E result \in {enhancePatches(patches, prevState, hlcInstance, readings)} :
           /\ fnOut' = [fn       |-> "enhancePatches",
                        patches  |-> patches,
                        readings |-> readings,
                        before   |-> hlcInstance,
                        enhanced |-> result.patches]
           /\ hlcInstance' = result.hlc
    /\ UNCHANGED <<hlcA, hlcB, hlcC, prevState, stamped, clockVars, replicaVars, trieVars>>

\* one call per behaviour, on a batch of one or two patches
NextEnhance ==
    \/ /\ fnOut.fn = "none"
       /\ \E patch \in StructuralPatches, now \in Readings :
              EnhancePatches(<<patch>>, <<now>>)
    \/ /\ fnOut.fn = "none"
       /\ \E first \in StructuralPatches, second \in StructuralPatches :
              \E readings \in {<<0, 0>>, <<MaxTime, 0>>} :
                  EnhancePatches(<<first, second>>, readings)

SpecEnhance == InitEnhance /\ [][NextEnhance]_vars

(***************************************************************************)
(* Properties of the detector                                              *)
(***************************************************************************)
Enhanced == fnOut.fn = "enhancePatches"
InputPatch(i) == fnOut.patches[i]
OutputPatch(i) == fnOut.enhanced[i]
PreviousValue(i) == getValueAtPath(prevState, fnOut.patches[i].path)

\* output i carries a timestamp above the clock before the call and above
\* every timestamp stamped earlier in the batch
FreshStamp(i) ==
    /\ HasHlc(OutputPatch(i))
    /\ compare(fnOut.before, fromString(OutputPatch(i).hlc)) < 0
    /\ \A j \in 1..(i - 1) :
           HasHlc(OutputPatch(j)) =>
               compare(fromString(OutputPatch(j).hlc),
                       fromString(OutputPatch(i).hlc)) < 0

\* output i is the operation op at path with value, freshly stamped
ClassifiedAs(i, op, path, value) ==
    /\ FreshStamp(i)
    /\ OutputPatch(i) = CRDTOperation(op, path, value, OutputPatch(i).hlc)

NumericReplace(i) ==
    /\ InputPatch(i).op = "replace"
    /\ PreviousValue(i).kind = "number"
    /\ InputPatch(i).value.kind = "number"

\* C11: a replace patch over a number v with a number v' is classified as
\* increment when v' > v and as decrement when v' < v, at the same path, with
\* value |v' - v| and a fresh timestamp; when v' = v it passes through
\* unchanged.
C11_NumericReplaceClassified ==
    Enhanced =>
        \A i \in 1..Len(fnOut.patches) :
            NumericReplace(i) =>
                IF InputPatch(i).value.val > PreviousValue(i).val
                THEN ClassifiedAs(i, "increment", InputPatch(i).path,
                         Num(InputPatch(i).value.val - PreviousValue(i).val))
                ELSE IF InputPatch(i).value.val < PreviousValue(i).val
                THEN ClassifiedAs(i, "decrement", InputPatch(i).path,
                         Num(PreviousValue(i).val - InputPatch(i).value.val))
                ELSE OutputPatch(i) = InputPatch(i)

\* one batch over the counter 5: 5 -> 8, then 5 -> 3
C11_Witness ==
    /\ Enhanced
    /\ Len(fnOut.patches) = 2
    /\ NumericReplace(1) /\ NumericReplace(2)
    /\ PreviousValue(1) = Num(5)
    /\ OutputPatch(1).op = "increment" /\ OutputPatch(1).value = Num(3)
    /\ OutputPatch(2).op = "decrement" /\ OutputPatch(2).value = Num(2)

RecordReplace(i) ==
    /\ InputPatch(i).op = "replace"
    /\ isPlainObject(PreviousValue(i))
    /\ isPlainObject(InputPatch(i).value)

HasNewKeys(i) == Keys(InputPatch(i).value) \ Keys(PreviousValue(i)) # {}

\* the contents of a and b differ (whether or not they are the same object)
ContentsDiffer(a, b) == a.kind # b.kind \/ a.val # b.val

\* a key of the previous record has, in the new record, a value of other
\* contents (none, when the key is gone)
HasChangedContents(i) ==
    \E key \in Keys(PreviousValue(i)) :
        ContentsDiffer(PreviousValue(i).val[key], Prop(InputPatch(i).value, key))

\* a key of the previous record has, in the new record, a value that is not
\* strictly equal: other contents, or an array or record that is another object
HasChangedIdentity(i) ==
    \E key \in Keys(PreviousValue(i)) :
        \/ ContentsDiffer(PreviousValue(i).val[key],
                          Prop(InputPatch(i).value, key))
        \/ /\ PreviousValue(i).val[key].kind \in {"array", "object"}
           /\ ~SameObject(PreviousValue(i).val[key],
                          Prop(InputPatch(i).value, key))

\* C12: a replace patch whose previous and new values are plain records is
\* classified as merge, carrying the full new record, exactly when keys were
\* added or the values of existing keys differ; otherwise it passes through
\* unchanged.
C12_RecordReplaceClassified ==
    Enhanced =>
        \A i \in 1..Len(fnOut.patches) :
            RecordReplace(i) =>
                IF HasNewKeys(i) \/ HasChangedContents(i)
                THEN ClassifiedAs(i, "merge", InputPatch(i).path,
                                  InputPatch(i).value)
                ELSE OutputPatch(i) = InputPatch(i)

\* C12 (amended): as C12, where a value differs when it is not strictly
\* equal (!==): a nested array or record that is another object differs,
\* whatever its contents.
C12_RecordReplaceClassifiedByIdentity ==
    Enhanced =>
        \A i \in 1..Len(fnOut.patches) :
            RecordReplace(i) =>
                IF HasNewKeys(i) \/ HasChangedIdentity(i)
                THEN ClassifiedAs(i, "merge", InputPatch(i).path,
                                  InputPatch(i).value)
                ELSE OutputPatch(i) = InputPatch(i)

\* one batch: a record of equal contents whose nested record is another
\* object, then the record holding the very same nested object
C12_Witness ==
    /\ Enhanced
    /\ Len(fnOut.patches) = 2
    /\ RecordReplace(1) /\ RecordReplace(2)
    /\ InputPatch(1).value = EqualRecord
    /\ OutputPatch(1).op = "merge"
    /\ InputPatch(2).value = SameRecord
    /\ OutputPatch(2) = InputPatch(2)

AddPatch(i) == InputPatch(i).op = "add"
ParentOf(i) == ParentPath(PathParts(InputPatch(i).path))
PreviousParent(i) == getValueAtPath(prevState, ParentOf(i))
IndexSegment(i) == LastPart(PathParts(InputPatch(i).path))

\* the last segment is the decimal numeral of the parent array's length
AtPreviousLength(i) ==
    /\ PreviousParent(i).kind = "array"
    /\ IndexSegment(i) = toString(Len(PreviousParent(i).val), 10)

\* the last segment is "-", or parseInt reads the parent array's length
\* from it; the patch carries a value
AtParsedLength(i) ==
    /\ PreviousParent(i).kind = "array"
    /\ InputPatch(i).value.kind # "undefined"
    /\ \/ IndexSegment(i) = <<45>>
       \/ parseInt(IndexSegment(i), 0) = Len(PreviousParent(i).val)

\* C13: an add patch is reclassified as append at the parent path, with the
\* added element as value, exactly when the parent held an array in the
\* previous state and the patch's index equals that array's length; every
\* other add patch passes through unchanged.
C13_AddClassified ==
    Enhanced =>
        \A i \in 1..Len(fnOut.patches) :
            AddPatch(i) =>
                IF AtPreviousLength(i)
                THEN ClassifiedAs(i, "append", ParentOf(i), InputPatch(i).value)
                ELSE OutputPatch(i) = InputPatch(i)

\* C13 (amended): the add patch is reclassified exactly when the parent held
\* an array, the patch carries a value, and the last segment is "-" or is
\* read by parseInt as the array's length.
C13_AddClassifiedByParsedIndex ==
    Enhanced =>
        \A i \in 1..Len(fnOut.patches) :
            AddPatch(i) =>
                IF AtParsedLength(i)
                THEN ClassifiedAs(i, "append", ParentOf(i), InputPatch(i).value)
                ELSE OutputPatch(i) = InputPatch(i)

\* one batch over the list [7]: an add at "-", then an add at index 0
C13_Witness ==
    /\ Enhanced
    /\ Len(fnOut.patches) = 2
    /\ AddPatch(1) /\ AddPatch(2)
    /\ PreviousParent(1) = Arr(<<Num(7)>>)
    /\ IndexSegment(1) = <<45>>
    /\ OutputPatch(1).op = "append"
    /\ OutputPatch(1).path = PathOf(<<ListKey>>)
    /\ IndexSegment(2) = <<48>>
    /\ InputPatch(2).value = Num(8)
    /\ OutputPatch(2) = InputPatch(2)

\* the clock after the first n patches of the batch, if it advanced once
\* for each output that carries a timestamp and not otherwise
RECURSIVE ClockAfter(_)
ClockAfter(n) ==
    IF n = 0 THEN fnOut.before
    ELSE IF HasHlc(OutputPatch(n))
    THEN tick(ClockAfter(n - 1), fnOut.readings[n])
    ELSE ClockAfter(n - 1)

\* C14: enhancePatches returns one output per input patch, in input order;
\* an unclassified patch is returned unchanged without timestamp and the
\* clock is not advanced for it: the clock advances exactly once per
\* classified operation, whose timestamp is the clock after that advance.
C14_OneOutputPerPatch ==
    Enhanced =>
        /\ Len(fnOut.enhanced) = Len(fnOut.patches)
        /\ hlcInstance = ClockAfter(Len(fnOut.patches))
        /\ \A i \in 1..Len(fnOut.patches) :
               IF HasHlc(OutputPatch(i))
               THEN /\ IsCRDT(OutputPatch(i))
                    /\ OutputPatch(i).hlc = asString(ClockAfter(i))
                    /\ OutputPatch(i).path \in {InputPatch(i).path, ParentOf(i)}
               ELSE OutputPatch(i) = InputPatch(i)

\* a remove patch followed by a classified patch: one advance of the clock
C14_Witness ==
    /\ Enhanced
    /\ Len(fnOut.patches) = 2
    /\ InputPatch(1).op = "remove"
    /\ OutputPatch(1) = InputPatch(1)
    /\ HasHlc(OutputPatch(2))
    /\ fnOut.readings = <<0, 0>>
    /\ hlcInstance = [fnOut.before EXCEPT !.count = @ + 1]

(***************************************************************************)
(* SpecResolve: resolveConflicts applied to a batch of operations          *)
(***************************************************************************)
\* timestamps of two actors at two physical times, equal times included
ResolveStamps ==
    {asString(hlc) :
        hlc \in [timestamp : {1, 2}, count : {0}, actor : ActorIds]}

CounterPath == PathOf(<<CounterKey>>)
ListPath    == PathOf(<<ListKey>>)

\* the operations of a batch: on the path "/c" every kind with every
\* timestamp, on the path "/l" a few
ResolvePatches ==
    {CRDTOperation(op, CounterPath, value, hlc) :
        op \in {"increment", "decrement"}, value \in {Num(0), Num(2)},
        hlc \in ResolveStamps}
    \cup {CRDTOperation("append", CounterPath, Num(7), hlc) :
        hlc \in ResolveStamps}
    \cup {CRDTOperation("merge", CounterPath, Obj(Field(InnerKey, Num(1))), hlc) :
        hlc \in ResolveStamps}
    \cup {CRDTOperation("replace", CounterPath, Num(9), hlc) :
        hlc \in ResolveStamps}
    \cup {StandardPatch("replace", CounterPath, Num(1)),
          StandardPatch("replace", CounterPath, Num(2)),
          StandardPatch("remove", CounterPath, Undefined)}
    \cup {CRDTOperation("increment", ListPath, Num(1),
                        asString(createHLC(<<97>>, 1))),
          CRDTOperation("append", ListPath, Num(8),
                        asString(createHLC(<<98>>, 2))),
          StandardPatch("replace", ListPath, Arr(<<>>))}

InitResolve ==
    ClockIdle /\ FnIdle /\ DetectIdle /\ ReplicaIdle /\ TrieIdle

\* resolveConflicts(patches)
ResolveConflicts(patches) ==
    /\ fnOut.fn = "none"
    /\ fnOut' = [fn       |-> "resolveConflicts",
                 patches  |-> patches,
                 resolved |-> resolveConflicts(patches)]
    /\ UNCHANGED <<hlcA, hlcB, hlcC, clockVars, detectVars, replicaVars, trieVars>>

\* one call per behaviour, on a batch of one, two or three operations
NextResolve ==
    \/ /\ fnOut.fn = "none"
       /\ \E first \in ResolvePatches : ResolveConflicts(<<first>>)
    \/ /\ fnOut.fn = "none"
       /\ \E first \in ResolvePatches, second \in ResolvePatches :
              ResolveConflicts(<<first, second>>)
    \/ /\ fnOut.fn = "none"
       /\ \E first \in ResolvePatches, second \in ResolvePatches,
             third \in ResolvePatches :
              ResolveConflicts(<<first, second, third>>)

SpecResolve == InitResolve /\ [][NextResolve]_vars

(***************************************************************************)
(* Properties of the resolver                                              *)
(***************************************************************************)
Resolved == fnOut.fn = "resolveConflicts"
BatchPaths == {CounterPath, ListPath}

\* the operations of the input (of the output) at a path, in order
GroupOf(path) == SelectSeq(fnOut.patches, LAMBDA q : q.path = path)
ResolvedOf(path) == SelectSeq(fnOut.resolved, LAMBDA q : q.path = path)
OfKind(operations, kind) ==
    SelectSeq(operations, LAMBDA q : IsCRDT(q) /\ q.op = kind)
Contested(path) == Len(GroupOf(path)) > 1

RECURSIVE SumOfValues(_)
SumOfValues(operations) ==
    IF operations = <<>> THEN 0
    ELSE Head(operations).value.val + SumOfValues(Tail(operations))

\* hlc is the timestamp of one of the operations and none compares above it
IsMaxStamp(hlc, operations) ==
    /\ \E i \in 1..Len(operations) : operations[i].hlc = hlc
    /\ \A i \in 1..Len(operations) :
           compare(fromString(operations[i].hlc), fromString(hlc)) <= 0

\* out is the one operation of its kind, with the sum and the maximum stamp
CombinesTo(out, operations) ==
    /\ Len(out) = 1
    /\ out[1].value = Num(SumOfValues(operations))
    /\ IsMaxStamp(out[1].hlc, operations)
    /\ out[1].type = "crdt"

\* C15: on a path with more than one operation, all increments are replaced
\* by one increment whose value is their sum and whose timestamp is their
\* maximum under compare; all decrements likewise, separately.
C15_IncrementsCombined ==
    Resolved =>
        \A path \in BatchPaths, kind \in {"increment", "decrement"} :
            (Contested(path) /\ OfKind(GroupOf(path), kind) # <<>>) =>
                CombinesTo(OfKind(ResolvedOf(path), kind),
                           OfKind(GroupOf(path), kind))

\* C15 (amended): as C15 when the sum is not 0; increments (decrements) that
\* sum to 0 are dropped, and no increment (decrement) appears where the
\* input had none.
C15_IncrementsCombinedUnlessZero ==
    Resolved =>
        \A path \in BatchPaths, kind \in {"increment", "decrement"} :
            Contested(path) =>
                IF SumOfValues(OfKind(GroupOf(path), kind)) # 0
                THEN CombinesTo(OfKind(ResolvedOf(path), kind),
                                OfKind(GroupOf(path), kind))
                ELSE OfKind(ResolvedOf(path), kind) = <<>>

\* increments of 2 and 2 with the later stamp first, and a decrement of 2
C15_Witness ==
    /\ Resolved
    /\ Len(fnOut.patches) = 3
    /\ Len(OfKind(GroupOf(CounterPath), "increment")) = 2
    /\ Len(OfKind(GroupOf(CounterPath), "decrement")) = 1
    /\ compare(fromString(fnOut.patches[1].hlc),
               fromString(fnOut.patches[2].hlc)) > 0
    /\ fnOut.patches[1].op = "increment" /\ fnOut.patches[2].op = "increment"
    /\ Len(fnOut.resolved) = 2
    /\ fnOut.resolved[1].value = Num(4)
    /\ fnOut.resolved[1].hlc = fnOut.patches[1].hlc
    /\ fnOut.resolved[2].op = "decrement"

Occurrences(operations, operation) ==
    Cardinality({i \in 1..Len(operations) : operations[i] = operation})

\* the timestamps of operations never decrease under compare
Ascending(operations) ==
    \A i \in 1..Len(operations), j \in 1..Len(operations) :
        i < j => compare(fromString(operations[i].hlc),
                         fromString(operations[j].hlc)) <= 0

\* C16: resolveConflicts keeps every append of a path, none merged or
\* dropped, and emits the appends of one path in ascending timestamp order,
\* whatever their order in the input.
C16_AppendsKeptInOrder ==
    Resolved =>
        \A path \in BatchPaths :
            /\ Len(OfKind(ResolvedOf(path), "append"))
                   = Len(OfKind(GroupOf(path), "append"))
            /\ \A operation \in ResolvePatches :
                   operation.op = "append" =>
                       Occurrences(ResolvedOf(path), operation)
                           = Occurrences(GroupOf(path), operation)
            /\ Ascending(OfKind(ResolvedOf(path), "append"))

\* three appends on one path given latest first: T2, T1, T3 with
\* T1 < T3 < T2
C16_Witness ==
    /\ Resolved
    /\ Len(OfKind(GroupOf(CounterPath), "append")) = 3
    /\ compare(fromString(fnOut.patches[2].hlc),
               fromString(fnOut.patches[3].hlc)) < 0
    /\ compare(fromString(fnOut.patches[3].hlc),
               fromString(fnOut.patches[1].hlc)) < 0
    /\ fnOut.resolved
           = <<fnOut.patches[2], fnOut.patches[3], fnOut.patches[1]>>

\* the timestamped operations that are neither increment, decrement nor append
Writes(operations) ==
    SelectSeq(operations,
              LAMBDA q : IsCRDT(q) /\ q.op \in {"merge", "replace"})

\* C17: among the timestamped merge and replace operations that share a
\* path, resolveConflicts keeps exactly one: the one with the maximum
\* timestamp under compare, the actor id deciding between equal physical
\* times and counts.
C17_LastWriterWins ==
    Resolved =>
        \A path \in BatchPaths :
            Writes(GroupOf(path)) # <<>> =>
                /\ Len(Writes(ResolvedOf(path))) = 1
                /\ Occurrences(GroupOf(path), Writes(ResolvedOf(path))[1]) > 0
                /\ IsMaxStamp(Writes(ResolvedOf(path))[1].hlc,
                              Writes(GroupOf(path)))

\* a merge stamped by actor "b" and a replace stamped by actor "a" at the
\* same physical time and count, the merge first: the merge is kept
C17_Witness ==
    /\ Resolved
    /\ Len(fnOut.patches) = 2
    /\ fnOut.patches[1].op = "merge" /\ fnOut.patches[2].op = "replace"
    /\ IsCRDT(fnOut.patches[2])
    /\ fromString(fnOut.patches[1].hlc).timestamp
           = fromString(fnOut.patches[2].hlc).timestamp
    /\ fromString(fnOut.patches[1].hlc).actor = <<98>>
    /\ fromString(fnOut.patches[2].hlc).actor = <<97>>
    /\ fnOut.resolved = <<fnOut.patches[1]>>

\* the patches that carry no timestamp
Plain(operations) == SelectSeq(operations, LAMBDA q : ~IsCRDT(q))

\* C18: of the plain patches of a path with more than one operation,
\* resolveConflicts keeps exactly the last one in input order; a path with
\* exactly one operation keeps it unchanged; and what is kept on a path
\* depends on the operations of that path alone.
C18_PlainPatchesKeepLast ==
    Resolved =>
        \A path \in BatchPaths :
            /\ (Contested(path) /\ Plain(GroupOf(path)) # <<>>) =>
                   Plain(ResolvedOf(path))
                       = <<Plain(GroupOf(path))[Len(Plain(GroupOf(path)))]>>
            /\ Plain(GroupOf(path)) = <<>> => Plain(ResolvedOf(path)) = <<>>
            /\ Len(GroupOf(path)) = 1 => ResolvedOf(path) = GroupOf(path)
            /\ ResolvedOf(path) = resolveConflicts(GroupOf(path))

\* two different plain patches on one path around a single operation on the
\* other path: the later plain patch and the single operation are kept
C18_Witness ==
    /\ Resolved
    /\ Len(fnOut.patches) = 3
    /\ ~IsCRDT(fnOut.patches[1]) /\ ~IsCRDT(fnOut.patches[3])
    /\ fnOut.patches[1].path = CounterPath
    /\ fnOut.patches[3].path = CounterPath
    /\ fnOut.patches[2].path = ListPath
    /\ fnOut.patches[1] # fnOut.patches[3]
    /\ fnOut.resolved = <<fnOut.patches[3], fnOut.patches[2]>>

(***************************************************************************)
(* SpecApply: applyEnhancedPatches on a batch of up to four operations,    *)
(* timestamped and plain, over documents whose "c" holds a number, a       *)
(* string, a record, an array, or is missing.                              *)
(***************************************************************************)
ApplyDocument(counter) ==
    Obj(Field(CounterKey, counter) @@ Field(ListKey, Arr(<<>>)))

ApplyStates ==
    {ApplyDocument(counter) :
        counter \in {Num(0), Num(5), Str(<<120>>), Arr(<<>>),
                     Obj(Field(InnerKey, Num(0)))}}
    \cup {Obj(Field(ListKey, Arr(<<>>)))}

ApplyPatches ==
    {CRDTOperation("increment", CounterPath, Num(2),
                   asString(createHLC(<<97>>, 1))),
     CRDTOperation("increment", CounterPath, Num(2),
                   asString(createHLC(<<97>>, 2))),
     CRDTOperation("decrement", CounterPath, Num(1),
                   asString(createHLC(<<98>>, 1))),
     CRDTOperation("replace", CounterPath, Num(9),
                   asString(createHLC(<<98>>, 2))),
     CRDTOperation("append", ListPath, Num(8),
                   asString(createHLC(<<97>>, 1))),
     CRDTOperation("append", ListPath, Num(7),
                   asString(createHLC(<<98>>, 2))),
     StandardPatch("replace", CounterPath, Num(1)),
     StandardPatch("replace", ListPath, Arr(<<>>)),
     StandardPatch("remove", CounterPath, Undefined)}

\* states and merge operations for the "merge" case: records with a nested
\* record, and values that are or are not records
MergeStates ==
    {ApplyDocument(counter) :
        counter \in {Obj(Field(InnerKey, Num(0))
                         @@ Field(NestedKey, Obj(Field(InnerKey, Num(0))))),
                     Num(5), Str(<<120>>), Arr(<<>>)}}
    \cup {Obj(Field(ListKey, Arr(<<>>)))}

MergePatches ==
    {CRDTOperation("merge", CounterPath, value,
                   asString(createHLC(<<97>>, 1))) :
        value \in {Obj(Field(ExtraKey, Num(1))),
                   Obj(Field(InnerKey, Num(2))),
                   Obj(Field(NestedKey, Obj(Field(ExtraKey, Num(1))))),
                   Num(3), Arr(<<Num(1)>>)}}

\* the two paths that address the whole state
RootPaths == {<<>>, <<47>>}

\* patches on the whole state: a timestamped replace, and plain patches with
\* and without a value
RootPatches ==
    {CRDTOperation("replace", path, Obj(NoFields),
                   asString(createHLC(<<97>>, 1))) : path \in RootPaths}
    \cup {StandardPatch(op, path, value) :
            op \in {"add", "replace"}, path \in RootPaths,
            value \in {Obj(NoFields), Undefined}}
    \cup {StandardPatch("remove", path, Undefined) : path \in RootPaths}

InitApply ==
    ClockIdle /\ FnIdle /\ DetectIdle /\ ReplicaIdle /\ TrieIdle

\* applyEnhancedPatches(state, patches): the copy of the batch is sorted, in
\* one of the orders the engine can give, and the recipe applies the sorted
\* patches one after the other
ApplyEnhancedPatches(state, patches) ==
    /\ fnOut.fn = "none"
    /\ \E sortedPatches \in SortOutcomes(patches) :
           fnOut' = [fn            |-> "applyEnhancedPatches",
                     state         |-> state,
                     patches       |-> patches,
                     sortedPatches |-> sortedPatches,
                     result        |-> ApplyEach(state, sortedPatches)]
    /\ UNCHANGED <<hlcA, hlcB, hlcC, clockVars, detectVars, replicaVars, trieVars>>

\* applyPatches(store, patches) on a store with one listener: the state
\* the store holds afterwards and the number of calls of the listener
ApplyPatchesToStore(currState, patches) ==
    /\ fnOut.fn = "none"
    /\ \E nextState \in {applyEnhancedPatches(currState, patches)} :
           \E notified \in UpdateNotifies(currState, nextState) :
               fnOut' = [fn           |-> "applyPatches",
                         before       |-> currState,
                         patches      |-> patches,
                         threw        |-> nextState = Thrown,
                         currentState |-> applyPatches(currState, patches),
                         notified     |-> notified]
    /\ UNCHANGED <<hlcA, hlcB, hlcC, clockVars, detectVars, replicaVars, trieVars>>

\* applyPatchesWithConflictResolution(store, patches), likewise
ApplyPatchesWithConflictResolution(currState, patches) ==
    /\ fnOut.fn = "none"
    /\ \E nextState \in
              {applyEnhancedPatches(currState, resolveConflicts(patches))} :
           \E notified \in UpdateNotifies(currState, nextState) :
               fnOut' = [fn           |-> "applyPatchesWithConflictResolution",
                         before       |-> currState,
                         patches      |-> patches,
                         threw        |-> nextState = Thrown,
                         currentState |->
                             applyPatchesWithConflictResolution(currState,
                                                                patches),
                         notified     |-> notified]
    /\ UNCHANGED <<hlcA, hlcB, hlcC, clockVars, detectVars, replicaVars, trieVars>>

\* the patches of a batch given to a store
StorePatches == ApplyPatches \cup RootPatches

\* one call per behaviour, on a batch of one to four operations, on one
\* merge, or on a batch with a patch on the whole state
NextApply ==
    \/ /\ fnOut.fn = "none"
       /\ \E state \in ApplyStates, first \in ApplyPatches :
              ApplyEnhancedPatches(state, <<first>>)
    \/ /\ fnOut.fn = "none"
       /\ \E state \in ApplyStates,
             first \in ApplyPatches, second \in ApplyPatches :
              ApplyEnhancedPatches(state, <<first, second>>)
    \/ /\ fnOut.fn = "none"
       /\ \E state \in ApplyStates, first \in ApplyPatches,
             second \in ApplyPatches, third \in ApplyPatches :
              ApplyEnhancedPatches(state, <<first, second, third>>)
    \/ /\ fnOut.fn = "none"
       /\ \E state \in ApplyStates, first \in ApplyPatches,
             second \in ApplyPatches, third \in ApplyPatches,
             fourth \in ApplyPatches :
              ApplyEnhancedPatches(state, <<first, second, third, fourth>>)
    \/ /\ fnOut.fn = "none"
       /\ \E state \in MergeStates, first \in MergePatches :
              ApplyEnhancedPatches(state, <<first>>)
    \/ /\ fnOut.fn = "none"
       /\ \E state \in ApplyStates, first \in RootPatches :
              ApplyEnhancedPatches(state, <<first>>)
    \/ /\ fnOut.fn = "none"
       /\ \E state \in ApplyStates, first \in ApplyPatches,
             second \in RootPatches :
              \/ ApplyEnhancedPatches(state, <<first, second>>)
              \/ ApplyEnhancedPatches(state, <<second, first>>)
    \/ /\ fnOut.fn = "none"
       /\ \E state \in ApplyStates, first \in StorePatches,
             second \in StorePatches :
              ApplyPatchesToStore(state, <<first, second>>)
    \/ /\ fnOut.fn = "none"
       /\ \E state \in ApplyStates, first \in StorePatches,
             second \in StorePatches :
              ApplyPatchesWithConflictResolution(state, <<first, second>>)

SpecApply == InitApply /\ [][NextApply]_vars

(***************************************************************************)
(* Properties of the application                                           *)
(***************************************************************************)
Applied == fnOut.fn = "applyEnhancedPatches"

Timestamped(operations) == SelectSeq(operations, HasHlc)
Untimestamped(operations) == SelectSeq(operations, LAMBDA q : ~HasHlc(q))

\* a batch whose operations all carry a timestamp is applied in the order of
\* the stable sort, whatever the engine
SortedWhenAllTimestamped ==
    (Applied /\ Untimestamped(fnOut.patches) = <<>>) =>
        fnOut.sortedPatches = sortByHlc(fnOut.patches)

\* the patches without timestamp are applied in their order in the batch
UntimestampedKeepOrder ==
    Applied =>
        Untimestamped(fnOut.sortedPatches) = Untimestamped(fnOut.patches)

\* C19: applyEnhancedPatches applies the timestamped operations of a batch
\* in ascending timestamp order for every input order, also when patches
\* without timestamp stand between them, and the patches without timestamp
\* keep their relative order.
C19_TimestampedAppliedAscending ==
    Applied =>
        /\ Ascending(Timestamped(fnOut.sortedPatches))
        /\ Untimestamped(fnOut.sortedPatches) = Untimestamped(fnOut.patches)

\* every operation of the batch is an increment or a decrement of "/c"
OnlyCounting(operations) ==
    \A i \in 1..Len(operations) :
        /\ IsCRDT(operations[i])
        /\ operations[i].op \in {"increment", "decrement"}
        /\ operations[i].path = CounterPath

\* the increments' values minus the decrements' values
RECURSIVE SignedSum(_)
SignedSum(operations) ==
    IF operations = <<>> THEN 0
    ELSE (IF Head(operations).op = "increment"
          THEN Head(operations).value.val
          ELSE 0 - Head(operations).value.val)
         + SignedSum(Tail(operations))

\* what the state given to applyEnhancedPatches holds at "c"
CounterBefore ==
    IF CounterKey \in DOMAIN fnOut.state.val
    THEN fnOut.state.val[CounterKey] ELSE Undefined

\* C20: applying an increment (decrement) adds (subtracts) its value to the
\* number at its path; when the path does not hold a number the operation
\* does nothing: the state is returned as it was and no error is raised.
C20_IncrementAddsToNumberOnly ==
    (Applied /\ OnlyCounting(fnOut.patches)) =>
        IF CounterBefore.kind = "number"
        THEN fnOut.result
                 = ApplyDocument(Num(CounterBefore.val
                                     + SignedSum(fnOut.patches)))
        ELSE fnOut.result = fnOut.state

\* a decrement applied to a state whose "c" is a string
C20_Witness ==
    /\ Applied
    /\ Len(fnOut.patches) = 1
    /\ OnlyCounting(fnOut.patches)
    /\ fnOut.patches[1].op = "decrement"
    /\ CounterBefore.kind = "string"
    /\ fnOut.result = fnOut.state

\* every operation of the batch is an append to "/l"
OnlyAppends(operations) ==
    \A i \in 1..Len(operations) :
        /\ IsCRDT(operations[i])
        /\ operations[i].op = "append"
        /\ operations[i].path = ListPath

ValuesOf(operations) ==
    [i \in 1..Len(operations) |-> operations[i].value]

\* C21: an append to an array pushes its value at the tail of the array, and
\* the same append applied a second time leaves its value in the array
\* twice: the result holds one element per applied append, in applied order.
C21_AppendAlwaysPushes ==
    (Applied /\ OnlyAppends(fnOut.patches)) =>
        fnOut.result
            = Obj([fnOut.state.val EXCEPT ![ListKey] =
                      Arr(fnOut.state.val[ListKey].val
                          \o ValuesOf(fnOut.sortedPatches))])

\* one append given twice, after an append with a later timestamp: the
\* value is in the array twice, before the later one
C21_Witness ==
    /\ Applied
    /\ Len(fnOut.patches) = 3
    /\ OnlyAppends(fnOut.patches)
    /\ fnOut.patches[1].value = Num(7)
    /\ fnOut.patches[2] = fnOut.patches[3]
    /\ fnOut.patches[2].value = Num(8)
    /\ fnOut.result.val[ListKey] = Arr(<<Num(8), Num(8), Num(7)>>)

\* the batch is one merge operation on "/c"
OneMerge ==
    /\ Applied
    /\ Len(fnOut.patches) = 1
    /\ IsCRDT(fnOut.patches[1])
    /\ fnOut.patches[1].op = "merge"
    /\ fnOut.patches[1].path = CounterPath

\* the state given to the call with counter at "c"
WithCounter(counter) == Obj(Field(CounterKey, counter) @@ fnOut.state.val)

\* C22: a merge of a plain record into a plain record copies the operation's
\* top-level keys onto the current record: the current record's other keys
\* are kept and a nested value is replaced as a whole; when the current value
\* or the operation's value is not a plain record, the value at the path
\* becomes the operation's value.
C22_MergeIsShallow ==
    OneMerge =>
        IF CounterBefore.kind = "object"
           /\ fnOut.patches[1].value.kind = "object"
        THEN /\ fnOut.result.kind = "object"
             /\ DOMAIN fnOut.result.val = DOMAIN fnOut.state.val
             /\ \A key \in DOMAIN fnOut.state.val \ {CounterKey} :
                    fnOut.result.val[key] = fnOut.state.val[key]
             /\ fnOut.result.val[CounterKey].kind = "object"
             /\ DOMAIN fnOut.result.val[CounterKey].val
                    = DOMAIN CounterBefore.val
                          \cup DOMAIN fnOut.patches[1].value.val
             /\ \A key \in DOMAIN fnOut.patches[1].value.val :
                    fnOut.result.val[CounterKey].val[key]
                        = fnOut.patches[1].value.val[key]
             /\ \A key \in DOMAIN CounterBefore.val
                               \ DOMAIN fnOut.patches[1].value.val :
                    fnOut.result.val[CounterKey].val[key]
                        = CounterBefore.val[key]
        ELSE fnOut.result = WithCounter(fnOut.patches[1].value)

\* a merge of { n: { j: 1 } } into { k: 0, n: { k: 0 } }: "k" is kept and
\* "n" is replaced as a whole
C22_Witness ==
    /\ OneMerge
    /\ CounterBefore = Obj(Field(InnerKey, Num(0))
                           @@ Field(NestedKey, Obj(Field(InnerKey, Num(0)))))
    /\ fnOut.patches[1].value
           = Obj(Field(NestedKey, Obj(Field(ExtraKey, Num(1)))))
    /\ fnOut.result.val[CounterKey]
           = Obj(Field(InnerKey, Num(0))
                 @@ Field(NestedKey, Obj(Field(ExtraKey, Num(1)))))

\* patch addresses the whole state and is a timestamped replace or a plain
\* add, replace or remove
OnRoot(patch) ==
    /\ IsRootPath(patch.path)
    /\ \/ IsCRDT(patch) /\ patch.op = "replace"
       \/ ~IsCRDT(patch) /\ patch.op \in {"add", "replace", "remove"}

\* a plain add or replace that carries no value
Valueless(patch) ==
    /\ ~IsCRDT(patch)
    /\ patch.op \in {"add", "replace"}
    /\ patch.value = Undefined

\* C23 as stated: a timestamped replace, or a plain add, replace or remove,
\* on the empty path or "/" fails with an error and never replaces or
\* removes the root state.
C23_RootPatchFails ==
    Applied =>
        ((\E i \in 1..Len(fnOut.patches) : OnRoot(fnOut.patches[i]))
            => fnOut.result = Thrown)

\* C23: a timestamped replace, a plain remove, or a plain add or replace
\* that carries a value, on the empty path or "/", fails with an error; a
\* plain add or replace without a value is skipped without an error; in no
\* case is the root state replaced or removed.
C23_RootPatchWithValueFails ==
    Applied =>
        /\ (\E i \in 1..Len(fnOut.patches) :
                OnRoot(fnOut.patches[i]) /\ ~Valueless(fnOut.patches[i]))
               => fnOut.result = Thrown
        /\ (/\ Len(fnOut.patches) = 1
            /\ OnRoot(fnOut.patches[1])
            /\ Valueless(fnOut.patches[1]))
               => fnOut.result = fnOut.state

\* a plain replace of "/" by {} after a patch that applies: the call fails
C23_Witness ==
    /\ Applied
    /\ Len(fnOut.patches) = 2
    /\ fnOut.patches[1] = StandardPatch("replace", CounterPath, Num(1))
    /\ fnOut.patches[2] = StandardPatch("replace", <<47>>, Obj(NoFields))
    /\ fnOut.result = Thrown

AppliedToStore ==
    fnOut.fn \in {"applyPatches", "applyPatchesWithConflictResolution"}

\* C24: when an operation of a batch given to applyPatches or to
\* applyPatchesWithConflictResolution fails, store.get() returns the state
\* held before the call, none of the batch's operations is visible, and no
\* listener is called.
C24_FailedBatchLeavesStore ==
    (AppliedToStore /\ fnOut.threw) =>
        /\ fnOut.currentState = fnOut.before
        /\ fnOut.notified = 0

\* applyPatches on { c: 0, l: [] } with a replace of "/c" by 1, which
\* applies, then a replace of "/" by {}, which fails: the store holds c = 0
C24_Witness ==
    /\ fnOut.fn = "applyPatches"
    /\ fnOut.threw
    /\ fnOut.before = ApplyDocument(Num(0))
    /\ fnOut.patches = <<StandardPatch("replace", CounterPath, Num(1)),
                         StandardPatch("replace", <<47>>, Obj(NoFields))>>
    /\ fnOut.currentState = ApplyDocument(Num(0))
    /\ fnOut.notified = 0

(***************************************************************************)
(* path-trie.  The trie is the function from the path of every node it     *)
(* holds to the node's set of subscribers; the children of a node are the  *)
(* nodes one segment longer.  A segment is a string or a number value, and *)
(* a string and a number are different keys of a node's children.          *)
(***************************************************************************)
\* new TrieNode() as the root: a node without children and subscribers
EmptyTrie == <<>> :> {}

Prefixes(path) == {SubSeq(path, 1, n) : n \in 0..Len(path)}
IsPrefix(p, q) == Len(p) <= Len(q) /\ SubSeq(q, 1, Len(p)) = p

\* node.children.values()
Children(trie, node) ==
    {child \in DOMAIN trie : Len(child) = Len(node) + 1 /\ IsPrefix(node, child)}

\* ensureNode(path): the nodes on the way to path, created where missing
ensureNode(trie, path) ==
    [node \in DOMAIN trie \cup Prefixes(path) |->
        IF node \in DOMAIN trie THEN trie[node] ELSE {}]

\* findNode(path) returns a node
findNode(trie, path) == path \in DOMAIN trie

subscribeReplaces(trie, path, subscriber) ==
    [ensureNode(trie, path) EXCEPT ![path] = {subscriber}]

\* subscribe(path, subscriber): node.subscribers.add(subscriber)
subscribe(trie, path, subscriber) ==
    [ensureNode(trie, path) EXCEPT ![path] = @ \cup {subscriber}]

\* the function subscribe returns: node.subscribers.delete(subscriber)
unsubscribe(trie, path, subscriber) ==
    [trie EXCEPT ![path] = @ \ {subscriber}]

\* collectAncestorSubscribers(path, result): the subscribers of the root and
\* of every node down the path, until a child is missing
RECURSIVE CollectDown(_, _, _)
CollectDown(trie, path, n) ==
    IF n > Len(path) \/ SubSeq(path, 1, n) \notin DOMAIN trie THEN {}
    ELSE trie[SubSeq(path, 1, n)] \cup CollectDown(trie, path, n + 1)

collectAncestorSubscribersOfRoot(trie, path) == trie[<<>>]

collectAncestorSubscribers(trie, path) == CollectDown(trie, path, 0)

\* collectDescendantSubscribers(node, result)
RECURSIVE collectDescendantSubscribers(_, _)
collectDescendantSubscribers(trie, node) ==
    UNION {trie[child] \cup collectDescendantSubscribers(trie, child) :
              child \in Children(trie, node)}

getAffectedSubscribersWithDescendants(trie, path, operation) ==
    collectAncestorSubscribers(trie, path)
    \cup (IF findNode(trie, path)
          THEN trie[path] \cup collectDescendantSubscribers(trie, path)
          ELSE {})

getAffectedSubscribers(trie, path, operation) ==
    collectAncestorSubscribers(trie, path)
    \cup (IF findNode(trie, path) THEN trie[path] ELSE {})
    \cup (IF operation = "remove" /\ findNode(trie, path)
          THEN collectDescendantSubscribers(trie, path)
          ELSE {})

\* countSubscribers(node)
RECURSIVE SumOver(_, _)
RECURSIVE countSubscribers(_, _)
SumOver(trie, children) ==
    IF children = {} THEN 0
    ELSE LET child == CHOOSE c \in children : TRUE
         IN  countSubscribers(trie, child) + SumOver(trie, children \ {child})

countSubscribers(trie, node) ==
    Cardinality(trie[node]) + SumOver(trie, Children(trie, node))

getSubscriberCount(trie) == countSubscribers(trie, <<>>)

(***************************************************************************)
(* SpecTrie: one PathTrie, subscribed to, unsubscribed from, cleared and   *)
(* asked for the affected subscribers and the subscriber count.            *)
(***************************************************************************)
MaxCalls == 4

Subscribers == {"f", "g"}

UserSeg  == Str(<<117>>)   \* "u"
NameSeg  == Str(<<110>>)   \* "n"
AgeSeg   == Str(<<97>>)    \* "a"
ItemsSeg == Str(<<105>>)   \* "i"

\* the paths subscribed to: the root, a key, a nested key, an array index
SubscribePaths ==
    {<<>>, <<UserSeg>>, <<UserSeg, NameSeg>>, <<ItemsSeg, Num(0)>>}

\* the paths asked about: those, a sibling, a node without subscribers, and
\* the index written as a string
QueryPaths ==
    SubscribePaths
    \cup {<<UserSeg, AgeSeg>>, <<ItemsSeg>>, <<ItemsSeg, Str(<<48>>)>>}

Operations == {"add", "replace", "remove"}

InitTrie ==
    /\ TrieIdle
    /\ ClockIdle /\ FnIdle /\ DetectIdle /\ ReplicaIdle

\* const unsubscribe = trie.subscribe(path, subscriber)
Subscribe(path, subscriber) ==
    /\ calls < MaxCalls
    /\ root' = subscribe(root, path, subscriber)
    /\ handles' = handles \cup {[generation |-> generation,
                                 path       |-> path,
                                 subscriber |-> subscriber,
                                 invoked    |-> FALSE]}
    /\ calls' = calls + 1
    /\ fnOut' = [fn         |-> "subscribe",
                 path       |-> path,
                 subscriber |-> subscriber,
                 had        |-> findNode(root, path)
                                    /\ subscriber \in root[path]]
    /\ UNCHANGED <<generation, hlcA, hlcB, hlcC,
                   clockVars, detectVars, replicaVars>>

\* unsubscribe(): the handle deletes from the node it was made for, which
\* clear() may have detached from the trie
Unsubscribe(handle) ==
    /\ calls < MaxCalls
    /\ root' = IF handle.generation = generation
               THEN unsubscribe(root, handle.path, handle.subscriber)
               ELSE root
    /\ handles' = (handles \ {handle})
                      \cup {[handle EXCEPT !.invoked = TRUE]}
    /\ calls' = calls + 1
    /\ fnOut' = [fn         |-> "unsubscribe",
                 path       |-> handle.path,
                 subscriber |-> handle.subscriber,
                 again      |-> handle.invoked,
                 detached   |-> handle.generation # generation]
    /\ UNCHANGED <<generation, hlcA, hlcB, hlcC,
                   clockVars, detectVars, replicaVars>>

\* trie.clear()
Clear ==
    /\ calls < MaxCalls
    /\ root' = EmptyTrie
    /\ generation' = generation + 1
    /\ calls' = calls + 1
    /\ fnOut' = [fn |-> "clear"]
    /\ UNCHANGED <<handles, hlcA, hlcB, hlcC,
                   clockVars, detectVars, replicaVars>>

\* trie.getAffectedSubscribers(path, operation)
GetAffectedSubscribers(path, operation) ==
    /\ fnOut' = [fn        |-> "getAffectedSubscribers",
                 path      |-> path,
                 operation |-> operation,
                 affected  |-> getAffectedSubscribers(root, path, operation)]
    /\ UNCHANGED <<hlcA, hlcB, hlcC, trieVars,
                   clockVars, detectVars, replicaVars>>

\* trie.getSubscriberCount()
GetSubscriberCount ==
    /\ fnOut' = [fn |-> "getSubscriberCount", count |-> getSubscriberCount(root)]
    /\ UNCHANGED <<hlcA, hlcB, hlcC, trieVars,
                   clockVars, detectVars, replicaVars>>

NextTrie ==
    \/ \E path \in SubscribePaths, subscriber \in Subscribers :
           Subscribe(path, subscriber)
    \/ \E handle \in handles : Unsubscribe(handle)
    \/ Clear
    \/ \E path \in QueryPaths, operation \in Operations :
           GetAffectedSubscribers(path, operation)
    \/ GetSubscriberCount

SpecTrie == InitTrie /\ [][NextTrie]_vars

(***************************************************************************)
(* Properties of the path trie                                             *)
(***************************************************************************)
\* the registrations of a trie: the pairs of a node's path and a subscriber
Registrations(trie) ==
    {registration \in (DOMAIN trie) \X Subscribers :
        registration[2] \in trie[registration[1]]}

\* the subscribers registered at a node that path lies at or below, and for
\* a remove also those at a node below path
Selected(trie, path, operation) ==
    {registration[2] : registration \in
        {r \in Registrations(trie) :
            \/ IsPrefix(r[1], path)
            \/ operation = "remove" /\ IsPrefix(path, r[1])}}

\* C25: getAffectedSubscribers(path, kind) returns exactly the subscribers
\* registered at the root, at a proper prefix of path or at path itself,
\* and when kind is remove also those registered at an extension of path;
\* a subscriber registered only at siblings or in other subtrees, or for add
\* and replace only below path, is not returned.
C25_AffectedSubscribers ==
    fnOut.fn = "getAffectedSubscribers" =>
        fnOut.affected = Selected(root, fnOut.path, fnOut.operation)

\* a remove of ["u"] with "f" registered only below it, at ["u", "n"], and
\* "g" only in another subtree
C25_Witness ==
    /\ fnOut.fn = "getAffectedSubscribers"
    /\ fnOut.operation = "remove"
    /\ fnOut.path = <<UserSeg>>
    /\ Registrations(root) = {<<<<UserSeg, NameSeg>>, "f">>,
                              <<<<ItemsSeg, Num(0)>>, "g">>}
    /\ fnOut.affected = {"f"}

\* the step is a call of subscribe (of an unsubscribe function)
SubscribeStep == fnOut'.fn = "subscribe" /\ calls' = calls + 1
UnsubscribeStep == fnOut'.fn = "unsubscribe" /\ calls' = calls + 1

\* C26: subscribing a subscriber at a path where it is registered changes no
\* registration; subscribing it anywhere else adds the one registration of
\* that subscriber at that path and leaves the others; getSubscriberCount
\* counts every pair of a path and a subscriber once.
C26_SubscribeIsIdempotent ==
    [][/\ SubscribeStep =>
              Registrations(root')
                  = Registrations(root)
                        \cup {<<fnOut'.path, fnOut'.subscriber>>}
       /\ fnOut'.fn = "getSubscriberCount" =>
              fnOut'.count = Cardinality(Registrations(root'))]_vars

\* "f" has been subscribed at a path where it was registered, and "g" is
\* registered at that path too
C26_Witness ==
    /\ fnOut.fn = "subscribe"
    /\ fnOut.had
    /\ fnOut.subscriber = "f"
    /\ root[fnOut.path] = {"f", "g"}

\* C27: the function subscribe(path, subscriber) returns removes exactly the
\* registration of that subscriber at that path, and called again it leaves
\* the registry as it is.
C27_UnsubscribeOnce ==
    [][UnsubscribeStep =>
           IF fnOut'.again \/ fnOut'.detached
           THEN Registrations(root') = Registrations(root)
           ELSE Registrations(root')
                    = Registrations(root)
                          \ {<<fnOut'.path, fnOut'.subscriber>>}]_vars

\* the first call of an unsubscribe function removes its registration and
\* no other
FirstUnsubscribeRemovesOne ==
    [][(UnsubscribeStep /\ ~fnOut'.again /\ ~fnOut'.detached) =>
           Registrations(root')
               = Registrations(root)
                     \ {<<fnOut'.path, fnOut'.subscriber>>}]_vars

(***************************************************************************)
(* The store with path subscriptions.  Store.set hands the patches and     *)
(* inverse patches create returned to #notifyPathSubscribers.  A           *)
(* subscriber is a function, and what it does when called is its effect:   *)
(* nothing, or a call of store.subscribe, or a call of an unsubscribe       *)
(* function it holds.                                                      *)
(***************************************************************************)
NoEffect == [kind |-> "none"]

\* the subscribers trie after the subscriber has been called
AfterCall(trie, subscriber, effect) ==
    IF effect.kind = "none" \/ effect.by # subscriber THEN trie
    ELSE IF effect.kind = "subscribe"
    THEN subscribe(trie, effect.path, effect.subscriber)
    ELSE unsubscribe(trie, effect.path, effect.subscriber)

\* for (const subscriber of affected): the calls of one patch; affected is a
\* Set of its own, which the calls do not change
RECURSIVE AfterCalls(_, _, _)
AfterCalls(trie, called, effect) ==
    IF called = {} THEN trie
    ELSE LET subscriber == CHOOSE c \in called : TRUE
         IN  AfterCalls(AfterCall(trie, subscriber, effect),
                        called \ {subscriber}, effect)

RECURSIVE NotifyEveryPatchFrom(_, _, _, _, _)
NotifyEveryPatchFrom(trie, patches, notificationData, invoked, effect) ==
    IF patches = <<>> THEN [subscribers |-> trie, invoked |-> invoked]
    ELSE LET Call(called) ==
                 NotifyEveryPatchFrom(
                     AfterCalls(trie, called, effect), Tail(patches),
                     notificationData,
                     Append(invoked, [called |-> called,
                                      data   |-> notificationData]),
                     effect)
         IN  Call(getAffectedSubscribers(trie, Head(patches).path,
                                         Head(patches).op))

notifyPathSubscribersEveryPatch(trie, patches, inversePatches, effect) ==
    NotifyEveryPatchFrom(trie, patches,
                         [patches |-> patches, inversePatches |-> inversePatches],
                         <<>>, effect)

\* the subscribers called so far: notifiedSubscribers
Notified(invoked) == UNION {invoked[i].called : i \in 1..Len(invoked)}

\* for (const patch of patches): the subscribers each patch selects that have
\* not been called yet are called with notificationData
RECURSIVE NotifyFrom(_, _, _, _, _)
NotifyFrom(trie, patches, notificationData, invoked, effect) ==
    IF patches = <<>> THEN [subscribers |-> trie, invoked |-> invoked]
    ELSE LET Call(called) ==
                 NotifyFrom(
                     AfterCalls(trie, called, effect), Tail(patches),
                     notificationData,
                     Append(invoked, [called |-> called,
                                      data   |-> notificationData]),
                     effect)
         IN  Call(getAffectedSubscribers(trie, Head(patches).path,
                                         Head(patches).op)
                      \ Notified(invoked))

\* #notifyPathSubscribers(patches, inversePatches): the trie afterwards and,
\* for every patch, the subscribers called for it and what they were given
notifyPathSubscribers(trie, patches, inversePatches, effect) ==
    NotifyFrom(trie, patches,
               [patches |-> patches, inversePatches |-> inversePatches],
               <<>>, effect)

\* the inverse patches create returns with the patches: the patches undone,
\* last first
InversePatch(patch) ==
    [op   |-> CASE patch.op = "add" -> "remove"
                [] patch.op = "remove" -> "add"
                [] OTHER -> "replace",
     path |-> patch.path]

InversePatches(patches) ==
    [i \in 1..Len(patches) |-> InversePatch(patches[Len(patches) + 1 - i])]

(***************************************************************************)
(* SpecStore: a store subscribed to at paths, then one call of set whose   *)
(* change has one or two patches.                                          *)
(***************************************************************************)
\* the patches of a change: every kind at a key, two nested keys and an index
StorePaths ==
    {<<UserSeg>>, <<UserSeg, NameSeg>>, <<UserSeg, AgeSeg>>,
     <<ItemsSeg, Num(0)>>}

ChangePatches == [op : Operations, path : StorePaths]

\* what the subscriber "f" does when called: nothing, or it subscribes "g",
\* or it calls the unsubscribe function of "g"
Effects ==
    {NoEffect}
    \cup [kind : {"subscribe", "unsubscribe"}, by : {"f"}, subscriber : {"g"},
          path : {<<UserSeg, AgeSeg>>, <<UserSeg>>}]

\* an unsubscribe function exists for a registration that was made
Possible(effect) ==
    effect.kind = "unsubscribe" =>
        /\ effect.path \in DOMAIN root
        /\ effect.subscriber \in root[effect.path]

InitStore ==
    /\ TrieIdle
    /\ ClockIdle /\ FnIdle /\ DetectIdle /\ ReplicaIdle

\* store.subscribe(path, subscriber); store.subscribe(subscriber) is the
\* case of the empty path
StoreSubscribe(path, subscriber) ==
    /\ fnOut.fn = "none"
    /\ calls < MaxCalls
    /\ root' = subscribe(root, path, subscriber)
    /\ calls' = calls + 1
    /\ UNCHANGED <<generation, handles, fnVars,
                   clockVars, detectVars, replicaVars>>

\* store.set(updater), create having returned patches and their inverses
Set(patches, effect) ==
    /\ fnOut.fn = "none"
    /\ Possible(effect)
    /\ \E result \in {notifyPathSubscribers(root, patches,
                                            InversePatches(patches), effect)} :
           /\ root' = result.subscribers
           /\ fnOut' = [fn            |-> "set",
                        patches       |-> patches,
                        inversePatches |-> InversePatches(patches),
                        effect        |-> effect,
                        before        |-> root,
                        invoked       |-> result.invoked]
    /\ UNCHANGED <<generation, handles, calls, hlcA, hlcB, hlcC,
                   clockVars, detectVars, replicaVars>>

NextStore ==
    \/ /\ fnOut.fn = "none"
       /\ \E path \in SubscribePaths \cup StorePaths,
             subscriber \in Subscribers :
              StoreSubscribe(path, subscriber)
    \/ /\ fnOut.fn = "none"
       /\ \E first \in ChangePatches, effect \in Effects :
              Set(<<first>>, effect)
    \/ /\ fnOut.fn = "none"
       /\ \E first \in ChangePatches, second \in ChangePatches,
             effect \in Effects :
              Set(<<first, second>>, effect)

SpecStore == InitStore /\ [][NextStore]_vars

(***************************************************************************)
(* Properties of the store's notifications                                 *)
(***************************************************************************)
HasSet == fnOut.fn = "set"

\* the subscribers called in the change, and how many calls were made
Called == Notified(fnOut.invoked)

RECURSIVE CallsFrom(_)
CallsFrom(invoked) ==
    IF invoked = <<>> THEN 0
    ELSE Cardinality(Head(invoked).called) + CallsFrom(Tail(invoked))

\* the subscribers the trie selects for the patches of the change
SelectedFor(trie, patches) ==
    UNION {Selected(trie, patches[i].path, patches[i].op) :
              i \in 1..Len(patches)}

\* C28: in one call of set every subscriber function is called at most once,
\* also when several patches select it or when it is registered at several
\* affected paths, and it is given the patches and inverse patches of the
\* whole change.
C28_NotifiedOncePerChange ==
    HasSet =>
        /\ CallsFrom(fnOut.invoked) = Cardinality(Called)
        /\ \A i \in 1..Len(fnOut.invoked) :
               fnOut.invoked[i].data
                   = [patches        |-> fnOut.patches,
                      inversePatches |-> fnOut.inversePatches]

\* "f" is registered at [] and at ["u", "n"], and both patches of the change
\* select it: it is called for the first patch only
C28_Witness ==
    /\ HasSet
    /\ fnOut.effect = NoEffect
    /\ Len(fnOut.patches) = 2
    /\ Registrations(fnOut.before) = {<<<<>>, "f">>,
                                      <<<<UserSeg, NameSeg>>, "f">>}
    /\ fnOut.patches[1].path = <<UserSeg, NameSeg>>
    /\ fnOut.patches[2].path = <<UserSeg, NameSeg>>
    /\ fnOut.invoked[1].called = {"f"}
    /\ fnOut.invoked[2].called = {}

\* C29: subscribing or unsubscribing from inside a callback does not change
\* which subscribers are called for the change in progress: those called are
\* exactly those the trie selects for the patches when notification starts.
C29_CalledAreThoseSelectedAtStart ==
    HasSet => Called = SelectedFor(fnOut.before, fnOut.patches)

\* without a callback that subscribes or unsubscribes, the subscribers
\* called are those selected when notification starts
CalledAreSelectedWithoutEffect ==
    (HasSet /\ fnOut.effect = NoEffect) =>
        Called = SelectedFor(fnOut.before, fnOut.patches)

\* with a single patch, also with such a callback
CalledAreSelectedForOnePatch ==
    (HasSet /\ Len(fnOut.patches) = 1) =>
        Called = SelectedFor(fnOut.before, fnOut.patches)

\* the change has a patch of one of the kinds whose path is an ancestor of
\* registered or registered itself (a descendant of registered or
\* registered itself)
ChangesAtOrAbove(registered, kinds) ==
    \E i \in 1..Len(fnOut.patches) :
        /\ fnOut.patches[i].op \in kinds
        /\ IsPrefix(fnOut.patches[i].path, registered)

ChangesAtOrBelow(registered, kinds) ==
    \E i \in 1..Len(fnOut.patches) :
        /\ fnOut.patches[i].op \in kinds
        /\ IsPrefix(registered, fnOut.patches[i].path)

CalledBefore(i) == Notified(SubSeq(fnOut.invoked, 1, i - 1))

\* the trie when patch i is processed: as notification found it, or as the
\* callback of "f" has left it
RegistryAt(i) ==
    IF fnOut.effect.kind # "none" /\ fnOut.effect.by \in CalledBefore(i)
    THEN AfterCall(fnOut.before, fnOut.effect.by, fnOut.effect)
    ELSE fnOut.before

\* patch changes registered or a descendant of it, or removes an ancestor
Concerns(patch, registered) ==
    \/ IsPrefix(registered, patch.path)
    \/ patch.op = "remove" /\ IsPrefix(patch.path, registered)

InitExchange ==
    /\ hlcA \in Clocks(ActorIds)
    /\ hlcB \in Clocks(ActorIds)
    /\ hlcC = NoClock
    /\ fnOut = [fn |-> "none"]
    /\ ClockIdle /\ DetectIdle /\ ReplicaIdle /\ TrieIdle

\* receive(a, b, now), receive(b, a, now)
Exchange(now) ==
    /\ fnOut.fn = "none"
    /\ fnOut' = [fn |-> "receive",
                 now |-> now,
                 ab |-> receive(hlcA, hlcB, now),
                 ba |-> receive(hlcB, hlcA, now)]
    /\ UNCHANGED <<hlcA, hlcB, hlcC, clockVars, detectVars, replicaVars, trieVars>>

NextExchange == \E now \in Readings : Exchange(now)

SpecExchange == InitExchange /\ [][NextExchange]_vars

\* C31: receive(a, b, now) and receive(b, a, now) have the same timestamp
\* and the same count; each keeps the actor id of its first argument.
C31_ReceiveIsSymmetric ==
    fnOut.fn = "receive" =>
        /\ fnOut.ab.timestamp = fnOut.ba.timestamp
        /\ fnOut.ab.count = fnOut.ba.count
        /\ fnOut.ab.actor = hlcA.actor
        /\ fnOut.ba.actor = hlcB.actor

\* the clock that is behind has the larger count, the reading is behind both
\* clocks and the actors differ
C31_Witness ==
    /\ fnOut.fn = "receive"
    /\ hlcA.timestamp < hlcB.timestamp
    /\ hlcA.count > hlcB.count
    /\ fnOut.now < hlcA.timestamp
    /\ hlcA.actor # hlcB.actor
    /\ fnOut.ab.count = hlcB.count + 1

(***************************************************************************)
(* Store.set with a state value                                            *)
(***************************************************************************)
\* set(nextState) when nextState is not a function: the store's next
\* currentState.  The recipe given to create is Object.assign(draft,
\* nextState).
set(currentState, nextState) ==
    IF SameObject(currentState, nextState) THEN currentState
    ELSE Assign(currentState, nextState)

\* records over the keys "c", "l", "k" with every subset of them present
SetStates ==
    {Obj(fields) :
        fields \in UNION {[keys -> {Num(0), Num(1)}] :
                             keys \in SUBSET {CounterKey, ListKey, InnerKey}}}

InitSet ==
    /\ fnOut = [fn |-> "none"]
    /\ hlcA = NoClock /\ hlcB = NoClock /\ hlcC = NoClock
    /\ ClockIdle /\ DetectIdle /\ ReplicaIdle /\ TrieIdle

\* store = createStore(currentState); store.set(nextState); store.get()
SetValue(currentState, nextState) ==
    /\ fnOut.fn = "none"
    /\ fnOut' = [fn |-> "Store.set",
                 before |-> currentState,
                 nextState |-> nextState,
                 currentState |-> set(Ref(currentState, 1), Ref(nextState, 2))]
    /\ UNCHANGED <<hlcA, hlcB, hlcC, clockVars, detectVars, replicaVars, trieVars>>

\* store.set(store.get())
SetSame(currentState) ==
    /\ fnOut.fn = "none"
    /\ fnOut' = [fn |-> "Store.set",
                 before |-> currentState,
                 nextState |-> currentState,
                 currentState |-> set(Ref(currentState, 1), Ref(currentState, 1))]
    /\ UNCHANGED <<hlcA, hlcB, hlcC, clockVars, detectVars, replicaVars, trieVars>>

NextSet ==
    \/ \E currentState \in SetStates, nextState \in SetStates :
           SetValue(currentState, nextState)
    \/ \E currentState \in SetStates : SetSame(currentState)

SpecSet == InitSet /\ [][NextSet]_vars

\* C32: after store.set(v) with a state value v, store.get() has exactly the
\* keys of v, each with v's value.
C32_SetGivesValue ==
    fnOut.fn = "Store.set" =>
        /\ DOMAIN fnOut.currentState.val = DOMAIN fnOut.nextState.val
        /\ \A key \in DOMAIN fnOut.nextState.val :
               fnOut.currentState.val[key] = fnOut.nextState.val[key]

\* what holds of set with a value: every key of v has v's value, and the keys
\* v does not have keep the value they had
SetAssignsOverState ==
    fnOut.fn = "Store.set" =>
        /\ DOMAIN fnOut.currentState.val
               = DOMAIN fnOut.before.val \cup DOMAIN fnOut.nextState.val
        /\ \A key \in DOMAIN fnOut.nextState.val :
               fnOut.currentState.val[key] = fnOut.nextState.val[key]
        /\ \A key \in DOMAIN fnOut.before.val \ DOMAIN fnOut.nextState.val :
               fnOut.currentState.val[key] = fnOut.before.val[key]

(***************************************************************************)
(* DerivedStore: a view of a parent store at a base path                   *)
(***************************************************************************)
\* the property names a path's segments give
KeysOf(path) == [i \in 1..Len(path) |-> path[i].val]

\* the recipe of DerivedStore.set with a value at a non-empty path: walk to
\* the parent of the target, then current[lastSegment] = nextState; a missing
\* value on the way fails the property read
RECURSIVE AssignAt(_, _, _)
AssignAt(current, parts, nextState) ==
    IF Len(parts) = 1 THEN SetProp(current, parts[1], nextState)
    ELSE IF Prop(current, parts[1]).kind = "undefined" THEN Thrown
    ELSE SetProp(current, parts[1],
                 AssignAt(Prop(current, parts[1]), Tail(parts), nextState))

\* the patches create reports for Object.assign(draft, nextState) when every
\* value of nextState is a new object: one per key of nextState
RECURSIVE AssignPatches(_, _)
AssignPatches(current, keys) ==
    IF keys = {} THEN <<>>
    ELSE LET key == CHOOSE k \in keys : TRUE
         IN  <<[op   |-> IF key \in Keys(current) THEN "replace" ELSE "add",
                path |-> <<Str(key)>>]>>
             \o AssignPatches(current, keys \ {key})

\* DerivedStore.set(nextState) with a value that is a new object: the parent's
\* next state and the patches of the change
DerivedSet(parentState, path, nextState) ==
    IF path = <<>>
    THEN [state   |-> Assign(parentState, nextState),
          patches |-> AssignPatches(parentState, Keys(nextState))]
    ELSE LET Update(state) ==
                 IF state = Thrown
                 THEN [state |-> parentState, patches |-> <<>>]
                 ELSE [state   |-> state,
                       patches |->
                           <<[op   |-> IF GetIn(parentState, KeysOf(path)).kind
                                              = "undefined"
                                       THEN "add" ELSE "replace",
                              path |-> path]>>]
         IN  Update(AssignAt(parentState, KeysOf(path), nextState))

\* DerivedStore.get(); Undefined stands for the error it throws
DerivedGet(parentState, path) == GetIn(parentState, KeysOf(path))

\* DerivedStore.subscribe(relativePath, subscriber); subscribe(subscriber) is
\* the case of the empty relative path
DerivedSubscribe(trie, path, relativePath, subscriber) ==
    subscribe(trie, path \o relativePath, subscriber)

(***************************************************************************)
(* SpecDerived: observers subscribed through derived stores of one parent, *)
(* then one call of set on a derived store.                                *)
(***************************************************************************)
UserKey  == UserSeg.val
NameKey  == NameSeg.val
AgeKey   == AgeSeg.val
ItemsKey == ItemsSeg.val

\* the values set: records with no, one and two keys
DerivedValues ==
    {Obj(NoFields), Obj(Field(NameKey, Num(0))),
     Obj(Field(NameKey, Num(1)) @@ Field(AgeKey, Num(0)))}

\* the parent's states: a record "u", and a record "i" or none
ParentStates ==
    LET Users == {Obj(Field(NameKey, Num(0)) @@ Field(AgeKey, Num(0))),
                  Obj(Field(NameKey, Num(1)))}
        Items == {Obj(NoFields), Obj(Field(NameKey, Num(0)))}
    IN  {Obj(Field(UserKey, u) @@ Field(ItemsKey, i)) : u \in Users, i \in Items}
        \cup {Obj(Field(UserKey, u)) : u \in Users}

\* the values set through the derived store at the root
RootValues ==
    {Obj(Field(UserKey, u)) : u \in DerivedValues}
    \cup {Obj(Field(UserKey, u) @@ Field(ItemsKey, Obj(NoFields))) :
             u \in DerivedValues}

BasePaths == {<<>>, <<UserSeg>>, <<ItemsSeg>>}
RelativePaths == {<<>>, <<NameSeg>>}
SetPaths == BasePaths \cup {<<UserSeg, NameSeg>>}

InitDerived ==
    /\ TrieIdle
    /\ ClockIdle /\ FnIdle /\ DetectIdle /\ ReplicaIdle

\* store.select(path).subscribe(relativePath, subscriber); handles keeps the
\* calls made
SubscribeDerived(path, relativePath, subscriber) ==
    /\ calls < MaxCalls
    /\ root' = DerivedSubscribe(root, path, relativePath, subscriber)
    /\ handles' = handles \cup {[path         |-> path,
                                 relativePath |-> relativePath,
                                 subscriber   |-> subscriber]}
    /\ calls' = calls + 1
    /\ UNCHANGED <<generation, fnVars, clockVars, detectVars, replicaVars>>

\* store = createStore(parentState); store.select(path).set(nextState)
SetDerived(parentState, path, nextState) ==
    /\ \E result \in {DerivedSet(parentState, path, nextState)} :
           fnOut' = [fn        |-> "DerivedStore.set",
                     path      |-> path,
                     nextState |-> nextState,
                     before    |-> parentState,
                     state     |-> result.state,
                     patches   |-> result.patches,
                     invoked   |->
                         notifyPathSubscribers(
                             root, result.patches,
                             InversePatches(result.patches), NoEffect).invoked]
    /\ UNCHANGED <<trieVars, hlcA, hlcB, hlcC,
                   clockVars, detectVars, replicaVars>>

NextDerived ==
    \/ /\ fnOut.fn = "none"
       /\ \E path \in BasePaths, relativePath \in RelativePaths,
             subscriber \in Subscribers :
              SubscribeDerived(path, relativePath, subscriber)
    \/ /\ fnOut.fn = "none"
       /\ \E parentState \in ParentStates, path \in SetPaths \ {<<>>},
             nextState \in DerivedValues :
              SetDerived(parentState, path, nextState)
    \/ /\ fnOut.fn = "none"
       /\ \E parentState \in ParentStates, nextState \in RootValues :
              SetDerived(parentState, <<>>, nextState)

SpecDerived == InitDerived /\ [][NextDerived]_vars

HasDerivedSet == fnOut.fn = "DerivedStore.set"

\* the paths of the parent's values, two keys deep
ParentPaths ==
    LET Segments == {UserSeg, ItemsSeg, NameSeg, AgeSeg}
    IN  {<<s>> : s \in Segments} \cup (Segments \X Segments)

\* path lies outside the subtree of the base path and does not contain it
Beside(path, base) == ~IsPrefix(base, path) /\ ~IsPrefix(path, base)

\* what the claim says of set on a derived store at base
DerivedSetFrame(base) ==
    /\ DerivedGet(fnOut.state, base) = fnOut.nextState
    /\ \A path \in ParentPaths :
           Beside(path, base) =>
               DerivedGet(fnOut.state, path) = DerivedGet(fnOut.before, path)
    /\ \A subscriber \in Subscribers :
           (/\ \E r \in Registrations(root) : r[2] = subscriber
            /\ \A r \in Registrations(root) :
                   r[2] = subscriber => Beside(r[1], base))
               => subscriber \notin Notified(fnOut.invoked)

\* C33: set(v) on a derived store at base path B changes the parent's state
\* only at B: derived.get() then returns v, the values at the paths outside
\* B's subtree are unchanged and subscribers registered only beside B are not
\* notified.
C33_DerivedSetChangesOnlyBase ==
    HasDerivedSet => DerivedSetFrame(fnOut.path)

\* the same for a base path that is not the root: it holds
DerivedSetBelowRoot ==
    (HasDerivedSet /\ fnOut.path # <<>>) => DerivedSetFrame(fnOut.path)

\* at the root the value's keys are copied over the parent's state
DerivedSetAtRoot ==
    (HasDerivedSet /\ fnOut.path = <<>>) =>
        fnOut.state = Assign(fnOut.before, fnOut.nextState)

\* subscribe(R, f) on the derived store at B registers f at B followed by R
DerivedSubscribeIsAbsolute ==
    Registrations(root)
        = {<<h.path \o h.relativePath, h.subscriber>> : h \in handles}

(***************************************************************************)
(* Properties of the stamps of a replica that has applied remote batches   *)
(***************************************************************************)
\* the timestamps of the classified operations of a batch
HlcsIn(batch) ==
    {fromString(batch[i].hlc) : i \in {n \in 1..Len(batch) : HasHlc(batch[n])}}

\* C34: once a replica has applied a batch of its peer, every operation it
\* then produces with mutateWithPatches carries a timestamp that compares
\* greater than the timestamps of the applied operations, whatever the two
\* wall clocks read.
C34_LaterStampsFollowApplied ==
    \A r \in Replicas :
        \A j \in 1..Len(outbox[r]) :
            \A i \in 1..localOps[r][j].hadApplied :
                \A remote \in HlcsIn(outbox[Peer(r)][i]) :
                    \A local \in HlcsIn(outbox[r][j]) :
                        compare(remote, local) < 0

(***************************************************************************)
(* SpecActor: one process that names its actor with setActorId, again and  *)
(* again, and mutates its store with mutateWithPatches in between          *)
(***************************************************************************)
InitActor ==
    /\ hlcInstance \in {createHLC(<<97>>, now) : now \in Readings}
    /\ prevState = Document(0)
    /\ stamped = <<>>
    /\ ClockIdle /\ FnIdle /\ ReplicaIdle /\ TrieIdle

\* setActorId(nodeId): hlcInstance = createHLC(nodeId), now being what
\* Date.now() returns
SetActorId(nodeId, now) ==
    /\ hlcInstance' = createHLC(nodeId, now)
    /\ UNCHANGED <<prevState, stamped, clockVars, fnVars, replicaVars, trieVars>>

NextActor ==
    \/ \E nodeId \in ActorIds, now \in Readings : SetActorId(nodeId, now)
    \/ /\ Len(stamped) < MaxSteps
       /\ \E mutation \in Mutations, now \in Readings :
              MutateWithPatches(mutation, <<now>>)

SpecActor == InitActor /\ [][NextActor]_vars

\* C35: whatever calls of setActorId and of detection one process makes, two
\* operations stamped with the same actor id carry timestamps that increase
\* strictly in creation order, also when setActorId is given an actor id
\* that was in use before.
C35_StampsOfOneActorIncrease ==
    \A i \in 1..Len(stamped), j \in 1..Len(stamped) :
        (i < j /\ fromString(stamped[i]).actor = fromString(stamped[j]).actor)
            => compare(fromString(stamped[i]), fromString(stamped[j])) < 0

(***************************************************************************)
(* SpecReplay: the patches mutateWithPatches returns for a mutation,       *)
(* applied to the state the mutation started from                          *)
(***************************************************************************)
\* { c: counter, l: list, r: record }
ReplayDocument(counter, list, record) ==
    Obj(Field(CounterKey, Num(counter))
        @@ Field(ListKey, Arr(list))
        @@ Field(RecordKey, record))

ReplayStates ==
    {ReplayDocument(counter, list, record) :
        counter \in {0, 5},
        list \in {<<>>, <<Num(6)>>},
        record \in {Obj(Field(InnerKey, Num(0))),
                    Obj(Field(InnerKey, Num(0)) @@ Field(NestedKey, Num(0)))}}

\* draft.c += by and draft.c -= by, one push, two pushes, a push with an
\* addition, and draft.r = record for records that add a key to { k: 0 },
\* change its key, do both, drop its key, or equal it
ReplayMutations ==
    [kind : {"add"}, by : {-1, 2}]
        \cup [kind : {"push"}, element : {Num(7)}]
        \cup [kind : {"pushes"}, first : {Num(7)}, second : {Num(7), Num(8)}]
        \cup BatchMutations
        \cup [kind : {"record"},
              record : {Obj(Field(InnerKey, Num(0)) @@ Field(ExtraKey, Num(1))),
                        Obj(Field(InnerKey, Num(1))),
                        Obj(Field(InnerKey, Num(1)) @@ Field(ExtraKey, Num(1))),
                        Obj(Field(ExtraKey, Num(1))),
                        Obj(NoFields),
                        Obj(Field(InnerKey, Num(0)))}]

InitReplay ==
    /\ hlcA \in {createHLC(<<97>>, now) : now \in Readings}
    /\ hlcB = NoClock
    /\ hlcC = NoClock
    /\ fnOut = [fn |-> "none"]
    /\ ClockIdle /\ DetectIdle /\ ReplicaIdle /\ TrieIdle

\* const { nextState, patches } = mutateWithPatches(store, updater);
\* applyEnhancedPatches(prevState, patches)
Replay(state, mutation, readings) ==
    /\ fnOut.fn = "none"
    /\ \E result \in {mutateWithPatches(state, mutation, hlcA, readings)} :
           \E sortedPatches \in SortOutcomes(result.patches) :
               fnOut' = [fn        |-> "replay",
                         prevState |-> state,
                         mutation  |-> mutation,
                         nextState |-> result.nextState,
                         patches   |-> result.patches,
                         replayed  |-> ApplyEach(state, sortedPatches)]
    /\ UNCHANGED <<hlcA, hlcB, hlcC, clockVars, detectVars, replicaVars, trieVars>>

NextReplay ==
    \E state \in ReplayStates, mutation \in ReplayMutations,
       first \in Readings, second \in Readings :
        Replay(state, mutation, <<first, second>>)

SpecReplay == InitReplay /\ [][NextReplay]_vars

\* C36: applying the enhanced patches returned for a mutation to the state
\* the mutation started from yields the mutation's next state, for numeric
\* changes, appends, several pushes in one mutation and the replacement of a
\* record by a record with added, changed or removed keys.
C36_ReplayYieldsNextState ==
    fnOut.fn = "replay" => fnOut.replayed = fnOut.nextState

\* the record put in place of r has every key r had
KeepsKeys ==
    fnOut.mutation.kind = "record" =>
        Keys(fnOut.prevState.val[RecordKey]) \subseteq Keys(fnOut.mutation.record)

\* the replay is faithful unless the mutation drops a key of a record
ReplayYieldsNextStateWhenKeysKept ==
    (fnOut.fn = "replay" /\ KeepsKeys) => fnOut.replayed = fnOut.nextState

\* when it drops one, the replayed state still has the key
ReplayKeepsDroppedKeys ==
    (fnOut.fn = "replay" /\ ~KeepsKeys) =>
        /\ fnOut.replayed # fnOut.nextState
        /\ Keys(fnOut.replayed.val[RecordKey])
               = Keys(fnOut.prevState.val[RecordKey])
                     \cup Keys(fnOut.mutation.record)

(***************************************************************************)
(* SpecPermute: resolveConflicts applied to a batch of timestamped         *)
(* operations, to the same operations in another order, and to its own     *)
(* result                                                                  *)
(***************************************************************************)
TimestampedPatches == {patch \in ResolvePatches : HasHlc(patch)}

\* the orders of three and of two operations
Orders(n) == {order \in [1..n -> 1..n] : \A i \in 1..n : \E j \in 1..n : order[j] = i}

Shuffled(patches, order) == [i \in 1..Len(patches) |-> patches[order[i]]]

InitPermute ==
    ClockIdle /\ FnIdle /\ DetectIdle /\ ReplicaIdle /\ TrieIdle

\* resolveConflicts(patches), resolveConflicts(shuffled),
\* resolveConflicts(resolveConflicts(patches))
ResolvePermuted(patches, order) ==
    /\ fnOut.fn = "none"
    /\ fnOut' = [fn               |-> "resolveConflicts",
                 patches          |-> patches,
                 shuffled         |-> Shuffled(patches, order),
                 resolved         |-> resolveConflicts(patches),
                 resolvedShuffled |-> resolveConflicts(Shuffled(patches, order)),
                 again            |-> resolveConflicts(resolveConflicts(patches))]
    /\ UNCHANGED <<hlcA, hlcB, hlcC, clockVars, detectVars, replicaVars, trieVars>>

NextPermute ==
    \/ /\ fnOut.fn = "none"
       /\ \E first \in TimestampedPatches, second \in TimestampedPatches,
             order \in Orders(2) :
              ResolvePermuted(<<first, second>>, order)
    \/ /\ fnOut.fn = "none"
       /\ \E first \in TimestampedPatches, second \in TimestampedPatches,
             third \in TimestampedPatches, order \in Orders(3) :
              ResolvePermuted(<<first, second, third>>, order)

SpecPermute == InitPermute /\ [][NextPermute]_vars

\* the operations of the batch carry pairwise different timestamps
DistinctStamps ==
    \A i \in 1..Len(fnOut.patches), j \in 1..Len(fnOut.patches) :
        i # j => fnOut.patches[i].hlc # fnOut.patches[j].hlc

At(operations, path) == SelectSeq(operations, LAMBDA q : q.path = path)

OutcomeStates == {Obj(Field(CounterKey, Num(counter))) : counter \in {0, 5}}

\* increments, decrements and replaces of "/c" with every timestamp
OutcomePatches ==
    {CRDTOperation("increment", CounterPath, Num(2), hlc) : hlc \in ResolveStamps}
    \cup {CRDTOperation("decrement", CounterPath, Num(1), hlc) :
             hlc \in ResolveStamps}
    \cup {CRDTOperation("replace", CounterPath, Num(9), hlc) :
             hlc \in ResolveStamps}

InitOutcome ==
    ClockIdle /\ FnIdle /\ DetectIdle /\ ReplicaIdle /\ TrieIdle

\* applyEnhancedPatches(state, patches),
\* applyEnhancedPatches(state, resolveConflicts(patches))
ApplyResolved(state, patches) ==
    /\ fnOut.fn = "none"
    /\ fnOut' = [fn         |-> "applyEnhancedPatches",
                 state      |-> state,
                 patches    |-> patches,
                 resolved   |-> resolveConflicts(patches),
                 unresolvedResult |-> applyEnhancedPatches(state, patches),
                 resolvedResult   |->
                     applyEnhancedPatches(state, resolveConflicts(patches))]
    /\ UNCHANGED <<hlcA, hlcB, hlcC, clockVars, detectVars, replicaVars, trieVars>>

NextOutcome ==
    \/ /\ fnOut.fn = "none"
       /\ \E state \in OutcomeStates, first \in OutcomePatches,
             second \in OutcomePatches :
              ApplyResolved(state, <<first, second>>)
    \/ /\ fnOut.fn = "none"
       /\ \E state \in OutcomeStates, first \in OutcomePatches,
             second \in OutcomePatches, third \in OutcomePatches :
              ApplyResolved(state, <<first, second, third>>)

SpecOutcome == InitOutcome /\ [][NextOutcome]_vars

HasOutcome == fnOut.fn = "applyEnhancedPatches" /\ "resolved" \in DOMAIN fnOut

\* C38: for a batch of timestamped increments, decrements and replaces of
\* one numeric path, applying the resolved batch yields the same value at
\* the path as applying the batch itself in ascending timestamp order; stated
\* here for the batches whose timestamps are pairwise different, where that
\* order is unique.
C38_ResolutionKeepsOutcome ==
    (HasOutcome /\ DistinctStamps) =>
        fnOut.resolvedResult.val[CounterKey]
            = fnOut.unresolvedResult.val[CounterKey]

\* it does when the batch has no replace
ResolutionKeepsSums ==
    (HasOutcome /\ \A i \in 1..Len(fnOut.patches) :
                       fnOut.patches[i].op # "replace") =>
        fnOut.resolvedResult = fnOut.unresolvedResult

\* C39: an unsubscribe function that has been called before, or that was
\* obtained before clear(), removes no registration: a registration the same
\* subscriber made at the same path afterwards stays.
C39_OldHandleRemovesNothing ==
    [][(UnsubscribeStep /\ (fnOut'.again \/ fnOut'.detached)) =>
           Registrations(root') = Registrations(root)]_vars

\* an unsubscribe function obtained before clear() removes nothing afterwards
DetachedHandleRemovesNothing ==
    [][(UnsubscribeStep /\ fnOut'.detached) =>
           Registrations(root') = Registrations(root)]_vars

\* an unsubscribe function called again removes the registration its
\* subscriber has at its path, whichever call of subscribe made it
CalledAgainRemovesLaterRegistration ==
    [][(UnsubscribeStep /\ fnOut'.again /\ ~fnOut'.detached) =>
           Registrations(root')
               = Registrations(root) \ {<<fnOut'.path, fnOut'.subscriber>>}]_vars

(***************************************************************************)
(* A subscriber unsubscribed from inside another subscriber's callback     *)
(***************************************************************************)
\* the callback of "f" calls the unsubscribe function of the one
\* registration "g" has
UnsubscribesOnlyRegistration ==
    /\ HasSet
    /\ fnOut.effect.kind = "unsubscribe"
    /\ {r[1] : r \in {q \in Registrations(fnOut.before) :
                         q[2] = fnOut.effect.subscriber}}
           = {fnOut.effect.path}

\* in the walk getAffectedSubscribers makes for patch i, from the root down
\* the changed path, "f" is met at a node above the node of "g": "f" is
\* called, and the unsubscribe function has returned, before the loop over
\* the affected subscribers comes to "g"
CalledAheadAt(i) ==
    /\ fnOut.effect.by \in fnOut.invoked[i].called
    /\ IsPrefix(fnOut.effect.path, fnOut.patches[i].path)
    /\ \E r \in Registrations(fnOut.before) :
           /\ r[2] = fnOut.effect.by
           /\ IsPrefix(r[1], fnOut.effect.path)
           /\ r[1] # fnOut.effect.path

\* C40: once the unsubscribe function of a subscriber has returned, the
\* store does not call that subscriber again, also not for the change whose
\* notification is in progress when another subscriber's callback calls the
\* function.
C40_UnsubscribedIsNotCalled ==
    UnsubscribesOnlyRegistration =>
        \A i \in 1..Len(fnOut.patches) :
            /\ CalledAheadAt(i) =>
                   fnOut.effect.subscriber \notin fnOut.invoked[i].called
            /\ fnOut.effect.by \in CalledBefore(i) =>
                   fnOut.effect.subscriber \notin fnOut.invoked[i].called

\* the subscriber is not called for the patches after the one whose calls
\* unsubscribed it
UnsubscribedIsNotCalledForLaterPatches ==
    UnsubscribesOnlyRegistration =>
        \A i \in 1..Len(fnOut.patches) :
            fnOut.effect.by \in CalledBefore(i) =>
                fnOut.effect.subscriber \notin fnOut.invoked[i].called

====
